---- MODULE Spec2Model ----
(***************************************************************************)
(* A model of the Lox tree-walking interpreter of src/lox: the runtime     *)
(* values, the environment chain, the evaluator (the eval methods of       *)
(* src/lox/ast.py), the object model (LoxFunction, LoxClass, LoxInstance)  *)
(* and the parts of the static validator the properties below need.        *)
(*                                                                         *)
(* The interpreter's heap is four tables (ctxs, funs, classes, insts)      *)
(* indexed by object identity.  A Python exception is a result whose sig   *)
(* is "raise" (err names the exception class) and the LoxReturn exception  *)
(* is a result whose sig is "return".                                      *)
(***************************************************************************)
EXTENDS Integers, Sequences, FiniteSets

VARIABLES
    ctxs,       \* the Ctx objects: <<[scope, parent]>>, parent 0 = none
    funs,       \* the LoxFunction objects: [name, arg_names, body, ctx]
    classes,    \* the LoxClass objects: [name, methods, base], base 0 = none
    insts,      \* the LoxInstance objects: [lox_class, fields]
    out,        \* the lines written by print
    trace,      \* history of the evaluator's calls, statements and returns
    prog,       \* the Program node being evaluated
    pc,         \* index of the next statement of Program.eval's loop
    phase,      \* "idle", "rejected", "running", "done", "error", "escaped"
    error,      \* the exception that left Program.eval ("" when none)
    input       \* the choices the program was written from

vars == <<ctxs, funs, classes, insts, out, trace, prog, pc, phase, error, input>>

----------------------------------------------------------------------------
(* Runtime values.  t is the Python type of the value, n its number (or    *)
(* the identity of the object it refers to), s its text.  A float is the   *)
(* fraction n / d in lowest terms with d > 0; its s is "nan" for a NaN and *)
(* "-0" for the negative zero.  The numbers the programs compute are       *)
(* fractions whose denominator is a small power of two, which a double     *)
(* holds exactly.                                                          *)

MkVal(t, n, s) == [t |-> t, n |-> n, s |-> s, d |-> 1]

Nil == MkVal("NoneType", 0, "")

BoolV(b) == MkVal("bool", IF b THEN 1 ELSE 0, "")

IntV(i) == MkVal("int", i, "")

StrV(s) == MkVal("str", 0, s)

Abs(i) == IF i < 0 THEN 0 - i ELSE i

RECURSIVE Gcd(_, _)
Gcd(a, b) == IF b = 0 THEN a ELSE Gcd(b, a % b)

\* the float num / den, for den > 0
FloatV(num, den) ==
    LET g == Gcd(Abs(num), den)
    IN  [t |-> "float", n |-> num \div g, s |-> "", d |-> den \div g]

\* float("nan")
NaN == MkVal("float", 0, "nan")

\* -0.0
NegZero == MkVal("float", 0, "-0")

FunV(f) == MkVal("LoxFunction", f, "")

ClassV(c) == MkVal("LoxClass", c, "")

InstV(i) == MkVal("LoxInstance", i, "")

\* the callable LoxInstance.get returns for the name init (ast.py:735)
InitLambdaV(i) == MkVal("function", i, "")

\* isinstance(v, (int, float))
IsNumber(v) == v.t \in {"int", "bool", "float"}

IsFloat(v) == v.t = "float"

IsNaN(v) == v.t = "float" /\ v.s = "nan"

IsNegZero(v) == v.t = "float" /\ v.s = "-0"

\* the sign bit of a number
Negative(v) == v.n < 0 \/ IsNegZero(v)

\* the float zero of the sign given
ZeroV(negative) == IF negative THEN NegZero ELSE FloatV(0, 1)

truthy(v) == ~(v.t = "NoneType" \/ (v.t = "bool" /\ v.n = 0))

is_lox_true(v) == truthy(v)

----------------------------------------------------------------------------
(* Results of an evaluation step: the heap after it, how it ended and the  *)
(* value or the exception class it ended with.                             *)

Res(st, sig, val, err) == [st |-> st, sig |-> sig, val |-> val, err |-> err]

Ok(st, v) == Res(st, "ok", v, "")

Raise(st, e) == Res(st, "raise", Nil, e)

LoxReturn(st, v) == Res(st, "return", v, "")

\* An entry of the history; by is the call that was running when it was made.
Event(ev, id, fn, x, y, sig, err, val) ==
    [ev |-> ev, id |-> id, fn |-> fn, x |-> x, y |-> y,
     sig |-> sig, err |-> err, val |-> val, by |-> 0,
     op |-> "", l |-> Nil, r |-> Nil]

\* the entry for the application of an operator to l and r (to l alone for
\* a unary operator) with result res
OpEvent(op, l, r, res) ==
    [Event("op", 0, 0, 0, 0, res.sig, res.err, res.val)
        EXCEPT !.op = op, !.l = l, !.r = r]

\* the entry for the write of value v to field attr of instance i
SetEvent(i, attr, v) ==
    [Event("set", i, 0, 0, 0, "ok", "", v) EXCEPT !.op = attr]

Log(st, e) == [st EXCEPT !.trace = Append(@, [e EXCEPT !.by = st.cur])]

----------------------------------------------------------------------------
(* Environment: the chain of Ctx frames.                                   *)

EmptyScope == [name \in {} |-> Nil]

Bind(scope, name, v) == [k \in DOMAIN scope \cup {name} |->
                            IF k = name THEN v ELSE scope[k]]

RECURSIVE Defines(_, _, _)
\* whether some frame of the chain starting at c binds name
Defines(cs, c, name) ==
    IF c = 0 THEN FALSE
    ELSE IF name \in DOMAIN cs[c].scope THEN TRUE
    ELSE Defines(cs, cs[c].parent, name)

RECURSIVE Owner(_, _, _)
\* the nearest frame of the chain starting at c that binds name (0: none)
Owner(cs, c, name) ==
    IF c = 0 THEN 0
    ELSE IF name \in DOMAIN cs[c].scope THEN c
    ELSE Owner(cs, cs[c].parent, name)

\* ctx[name]
CtxGet(cs, c, name) == cs[Owner(cs, c, name)].scope[name]

\* Ctx(scope, parent); the new frame is the last of the table
NewCtx(st, scope, parent) ==
    [st EXCEPT !.ctxs = Append(@, [scope |-> scope, parent |-> parent])]

\* ctx.child()
Child(st, c) == NewCtx(st, EmptyScope, c)

\* ctx.var_def(name, value)
VarDefine(st, c, name, v) ==
    [st EXCEPT !.ctxs[c].scope = Bind(@, name, v)]

\* ctx[name] = value, for a name the chain binds
CtxAssign(st, c, name, v) ==
    [st EXCEPT !.ctxs[Owner(st.ctxs, c, name)].scope[name] = v]

----------------------------------------------------------------------------
(* Operators of runtime.py.  isinstance(x, (int, float)) is true of a bool *)
(* as well, since bool is a subclass of int in Python.  The Py operators   *)
(* are Python's own arithmetic and comparison of two numbers.              *)

\* left + right
PyAdd(l, r) ==
    IF ~IsFloat(l) /\ ~IsFloat(r) THEN IntV(l.n + r.n)
    ELSE IF IsNaN(l) \/ IsNaN(r) THEN NaN
    ELSE LET num == l.n * r.d + r.n * l.d
         IN  IF num = 0 THEN ZeroV(IsNegZero(l) /\ IsNegZero(r))
             ELSE FloatV(num, l.d * r.d)

\* left - right
PySub(l, r) ==
    IF ~IsFloat(l) /\ ~IsFloat(r) THEN IntV(l.n - r.n)
    ELSE IF IsNaN(l) \/ IsNaN(r) THEN NaN
    ELSE LET num == l.n * r.d - r.n * l.d
         IN  IF num = 0 THEN ZeroV(IsNegZero(l) /\ r.n = 0 /\ ~IsNegZero(r))
             ELSE FloatV(num, l.d * r.d)

\* left * right
PyMul(l, r) ==
    IF ~IsFloat(l) /\ ~IsFloat(r) THEN IntV(l.n * r.n)
    ELSE IF IsNaN(l) \/ IsNaN(r) THEN NaN
    ELSE IF l.n * r.n = 0 THEN ZeroV(Negative(l) # Negative(r))
    ELSE FloatV(l.n * r.n, l.d * r.d)

\* left / right for a right that is not zero: always a float
PyTrueDiv(l, r) ==
    IF IsNaN(l) \/ IsNaN(r) THEN NaN
    ELSE IF l.n = 0 THEN ZeroV(Negative(l) # Negative(r))
    ELSE IF r.n < 0 THEN FloatV((0 - l.n) * r.d, l.d * (0 - r.n))
    ELSE FloatV(l.n * r.d, l.d * r.n)

\* left < right; every comparison with a NaN is false
PyLt(l, r) == ~IsNaN(l) /\ ~IsNaN(r) /\ l.n * r.d < r.n * l.d

\* left == right for two numbers
PyNumEq(l, r) == ~IsNaN(l) /\ ~IsNaN(r) /\ l.n * r.d = r.n * l.d

lox_add(st, l, r) ==
    IF l.t = "bool" \/ r.t = "bool" THEN Raise(st, "LoxError")
    ELSE IF IsNumber(l) /\ IsNumber(r) THEN Ok(st, PyAdd(l, r))
    ELSE IF l.t = "str" /\ r.t = "str" THEN Ok(st, StrV(l.s \o r.s))
    ELSE Raise(st, "LoxError")

lox_sub(st, l, r) ==
    IF l.t = "bool" \/ r.t = "bool" THEN Raise(st, "LoxError")
    ELSE IF IsNumber(l) /\ IsNumber(r) THEN Ok(st, PySub(l, r))
    ELSE Raise(st, "LoxError")

lox_mul(st, l, r) ==
    IF IsNumber(l) /\ IsNumber(r) THEN Ok(st, PyMul(l, r))
    ELSE Raise(st, "LoxError")

lox_truediv(st, l, r) ==
    IF IsNumber(l) /\ IsNumber(r)
    THEN IF r.n = 0 /\ ~IsNaN(r) THEN Ok(st, NaN)
         ELSE Ok(st, PyTrueDiv(l, r))
    ELSE Raise(st, "LoxError")

lox_ge(st, l, r) ==
    IF IsNumber(l) /\ IsNumber(r) THEN Ok(st, BoolV(PyLt(r, l) \/ PyNumEq(l, r)))
    ELSE Raise(st, "LoxError")

lox_le(st, l, r) ==
    IF IsNumber(l) /\ IsNumber(r) THEN Ok(st, BoolV(PyLt(l, r) \/ PyNumEq(l, r)))
    ELSE Raise(st, "LoxError")

lox_gt(st, l, r) ==
    IF IsNumber(l) /\ IsNumber(r) THEN Ok(st, BoolV(PyLt(r, l)))
    ELSE Raise(st, "LoxError")

lox_lt(st, l, r) ==
    IF IsNumber(l) /\ IsNumber(r) THEN Ok(st, BoolV(PyLt(l, r)))
    ELSE Raise(st, "LoxError")

RECURSIVE PyEq(_, _, _)
RECURSIVE PyEqClass(_, _, _)

\* LoxFunction.__eq__, as @dataclass writes it: the same object, or the same
\* name, parameters, body and ctx.  No program here compares two functions
\* that were made in different frames, so that the comparison of two ctx
\* objects is the comparison of an object with itself.
PyEqFunction(st, f, g) ==
    f = g \/ st.funs[f] = st.funs[g]

\* LoxClass.__eq__, as @dataclass writes it: name, methods and base; two
\* dicts are == when they have the same keys and, under each key, the same
\* object or values that are ==
PyEqClass(st, c1, c2) ==
    \/ c1 = c2
    \/ /\ c1 # 0
       /\ c2 # 0
       /\ st.classes[c1].name = st.classes[c2].name
       /\ DOMAIN st.classes[c1].methods = DOMAIN st.classes[c2].methods
       /\ \A k \in DOMAIN st.classes[c1].methods :
             PyEqFunction(st, st.classes[c1].methods[k], st.classes[c2].methods[k])
       /\ PyEqClass(st, st.classes[c1].base, st.classes[c2].base)

\* LoxInstance.__eq__, as @dataclass writes it: lox_class and fields.  The
\* programs here hold no instance that can be reached from its own fields.
PyEqInstance(st, i, j) ==
    \/ i = j
    \/ /\ PyEqClass(st, st.insts[i].lox_class, st.insts[j].lox_class)
       /\ DOMAIN st.insts[i].fields = DOMAIN st.insts[j].fields
       /\ \A k \in DOMAIN st.insts[i].fields :
             PyEq(st, st.insts[i].fields[k], st.insts[j].fields[k])

\* Python's left == right.  The callable that get("init") returns is equal
\* to itself only; the programs here do not store a NaN in a field, where
\* Python would compare the identity of the float first.
PyEq(st, l, r) ==
    IF IsNumber(l) /\ IsNumber(r) THEN PyNumEq(l, r)
    ELSE IF l.t # r.t THEN FALSE
    ELSE CASE l.t = "NoneType" -> TRUE
           [] l.t = "str" -> l.s = r.s
           [] l.t = "LoxFunction" -> PyEqFunction(st, l.n, r.n)
           [] l.t = "LoxClass" -> PyEqClass(st, l.n, r.n)
           [] l.t = "LoxInstance" -> PyEqInstance(st, l.n, r.n)
           [] l.t = "function" -> l.n = r.n

lox_eq(st, l, r) ==
    IF l.t # r.t THEN Ok(st, BoolV(FALSE))
    ELSE IF l.t = "LoxFunction" THEN Ok(st, BoolV(l.n = r.n))
    ELSE Ok(st, BoolV(PyEq(st, l, r)))

lox_ne(st, l, r) == Ok(st, BoolV(lox_eq(st, l, r).val = BoolV(FALSE)))

lox_not(st, v) == Ok(st, BoolV(~truthy(v)))

lox_neg(st, v) ==
    IF IsNumber(v)
    THEN IF v.n = 0 /\ ~IsNaN(v) THEN Ok(st, NegZero)
         ELSE IF IsNaN(v) THEN Ok(st, NaN)
         ELSE IF IsFloat(v) THEN Ok(st, FloatV(0 - v.n, v.d))
         ELSE Ok(st, IntV(0 - v.n))
    ELSE Raise(st, "LoxError")

\* BinOp.op, as the transformer sets it
ApplyBinOp(op, st, l, r) ==
    CASE op = "add" -> lox_add(st, l, r)
      [] op = "sub" -> lox_sub(st, l, r)
      [] op = "mul" -> lox_mul(st, l, r)
      [] op = "truediv" -> lox_truediv(st, l, r)
      [] op = "ge" -> lox_ge(st, l, r)
      [] op = "le" -> lox_le(st, l, r)
      [] op = "gt" -> lox_gt(st, l, r)
      [] op = "lt" -> lox_lt(st, l, r)
      [] op = "eq" -> lox_eq(st, l, r)
      [] op = "ne" -> lox_ne(st, l, r)

\* UnaryOp.op
ApplyUnaryOp(op, st, v) ==
    CASE op = "not_" -> lox_not(st, v)
      [] op = "neg" -> lox_neg(st, v)

Digit(d) == CASE d = 0 -> "0" [] d = 1 -> "1" [] d = 2 -> "2" [] d = 3 -> "3"
              [] d = 4 -> "4" [] d = 5 -> "5" [] d = 6 -> "6" [] d = 7 -> "7"
              [] d = 8 -> "8" [] d = 9 -> "9"

RECURSIVE ShowNat(_)
ShowNat(i) == IF i < 10 THEN Digit(i) ELSE ShowNat(i \div 10) \o Digit(i % 10)

\* str(int)
ShowInt(i) == IF i < 0 THEN "-" \o ShowNat(0 - i) ELSE ShowNat(i)

RECURSIVE ShowFraction(_, _)
\* the decimal digits of num / den, for 0 <= num < den
ShowFraction(num, den) ==
    IF num = 0 THEN ""
    ELSE Digit((num * 10) \div den) \o ShowFraction((num * 10) % den, den)

\* show for a float: the integer when it is one (with the sign of the
\* negative zero), str(value) otherwise
ShowFloat(v) ==
    IF IsNaN(v) THEN "nan"
    ELSE IF IsNegZero(v) THEN "-0"
    ELSE IF v.d = 1 THEN ShowInt(v.n)
    ELSE (IF v.n < 0 THEN "-" ELSE "") \o ShowNat(Abs(v.n) \div v.d)
         \o "." \o ShowFraction(Abs(v.n) % v.d, v.d)

show(st, v) ==
    CASE v.t = "NoneType" -> "nil"
      [] v.t = "bool" -> IF v.n = 1 THEN "true" ELSE "false"
      [] v.t = "int" -> ShowInt(v.n)
      [] v.t = "float" -> ShowFloat(v)
      [] v.t = "str" -> v.s
      [] v.t = "LoxClass" -> st.classes[v.n].name
      [] v.t = "LoxInstance" ->
            st.classes[st.insts[v.n].lox_class].name \o " instance"
      [] v.t = "LoxFunction" -> "<fn " \o st.funs[v.n].name \o ">"
      [] v.t = "function" -> "<native fn>"

----------------------------------------------------------------------------
(* The nodes of the syntax tree (the dataclasses of ast.py).  k is the     *)
(* class of the node.                                                      *)

Literal(v) == [k |-> "Literal", value |-> v]

Var(name) == [k |-> "Var", name |-> name]

BinOp(left, right, op) == [k |-> "BinOp", left |-> left, right |-> right, op |-> op]

UnaryOp(op, expr) == [k |-> "UnaryOp", op |-> op, expr |-> expr]

And(left, right) == [k |-> "And", left |-> left, right |-> right]

Or(left, right) == [k |-> "Or", left |-> left, right |-> right]

Call(callee, params) == [k |-> "Call", callee |-> callee, params |-> params]

This == [k |-> "This"]

Super(method_name) == [k |-> "Super", method_name |-> method_name]

Assign(name, value) == [k |-> "Assign", name |-> name, value |-> value]

Getattr(obj, attr) == [k |-> "Getattr", obj |-> obj, attr |-> attr]

Setattr(obj, attr, value) ==
    [k |-> "Setattr", obj |-> obj, attr |-> attr, value |-> value]

PrintStmt(expr) == [k |-> "Print", expr |-> expr]

Return(value) == [k |-> "Return", value |-> value]

VarDef(name, value) == [k |-> "VarDef", name |-> name, value |-> value]

If(cond, then, orelse) ==
    [k |-> "If", cond |-> cond, then |-> then, orelse |-> orelse]

While(cond, body) == [k |-> "While", cond |-> cond, body |-> body]

Block(stmts) == [k |-> "Block", stmts |-> stmts]

Function(name, arg_names, body) ==
    [k |-> "Function", name |-> name, arg_names |-> arg_names, body |-> body]

\* superclass is a sequence: <<>> for None, <<expr>> otherwise
Class(name, superclass, methods) ==
    [k |-> "Class", name |-> name, superclass |-> superclass, methods |-> methods]

Program(stmts) == [k |-> "Program", stmts |-> stmts]

----------------------------------------------------------------------------
(* The object model.                                                       *)

RECURSIVE get_method(_, _, _)
RECURSIVE get_method_BaseFirst(_, _, _)

\* the method of an ancestor is preferred to the class's own
get_method_BaseFirst(cls, c, name) ==
    LET up == IF cls[c].base # 0 THEN get_method_BaseFirst(cls, cls[c].base, name)
              ELSE 0
    IN  IF up # 0 THEN up
        ELSE IF name \in DOMAIN cls[c].methods THEN cls[c].methods[name]
        ELSE 0

\* LoxClass.get_method: the LoxFunction found, 0 when it raises SemanticError
get_method(cls, c, name) ==
    IF name \in DOMAIN cls[c].methods THEN cls[c].methods[name]
    ELSE IF cls[c].base # 0 THEN get_method(cls, cls[c].base, name)
    ELSE 0

\* LoxFunction(name, arg_names, body, ctx); the new object is the last one
NewFunction(st, name, arg_names, body, c) ==
    [st EXCEPT !.funs = Append(@, [name |-> name, arg_names |-> arg_names,
                                   body |-> body, ctx |-> c])]

\* LoxFunction.bind: the bound function is the last of the table
bind(st, f, obj) ==
    LET s1 == Child(st, st.funs[f].ctx)
        s2 == VarDefine(s1, Len(s1.ctxs), "this", obj)
    IN  NewFunction(s2, st.funs[f].name, st.funs[f].arg_names,
                    st.funs[f].body, Len(s1.ctxs))

\* dict(zip(names, values)) for sequences of the same length
ZipScope(names, values) ==
    [k \in {names[i] : i \in DOMAIN names} |->
        values[CHOOSE i \in DOMAIN names :
                  /\ names[i] = k
                  /\ \A j \in DOMAIN names : names[j] = k => j <= i]]

\* the value of the return is dropped
CatchReturn_Nil(r) ==
    IF r.sig \in {"return", "ok"} THEN Ok(r.st, Nil) ELSE r

\* LoxFunction.__call__, try/except LoxReturn: the LoxReturn raised by the
\* body becomes the value of the call, a body that ends yields None
CatchReturn(r) ==
    IF r.sig = "return" THEN Ok(r.st, r.val)
    ELSE IF r.sig = "ok" THEN Ok(r.st, Nil)
    ELSE r

\* the call of a class yields what init returned
ClassCallResult_InitValue(r, args, inst) ==
    IF r.sig = "ok" THEN Ok(r.st, r.val)
    ELSE IF Len(args) > 0 THEN Raise(r.st, "TypeError")
    ELSE Ok(r.st, InstV(inst))

\* LoxClass.__call__, the except clause around the call of init and the
\* return of the instance: r is how the try block ended
ClassCallResult(r, args, inst) ==
    IF r.sig = "ok" THEN Ok(r.st, InstV(inst))
    ELSE IF Len(args) > 0 THEN Raise(r.st, "TypeError")
    ELSE Ok(r.st, InstV(inst))

\* LoxInstance.init, the return of the instance and the except clause
InstanceInitResult(r, inst) == Ok(r.st, InstV(inst))

\* LoxInstance(lox_class); the new instance is the last of the table
NewInstance(st, c) ==
    [st EXCEPT !.insts = Append(@, [lox_class |-> c, fields |-> EmptyScope])]

\* every instance of the class of i gets the field
InstanceSet_Shared(st, i, name, v) ==
    [st EXCEPT !.insts =
        [j \in 1..Len(st.insts) |->
            IF st.insts[j].lox_class = st.insts[i].lox_class
            THEN [st.insts[j] EXCEPT !.fields = Bind(@, name, v)]
            ELSE st.insts[j]]]

\* LoxInstance.set
InstanceSet(st, i, name, v) ==
    [st EXCEPT !.insts[i].fields = Bind(@, name, v)]

\* a method of the class is preferred to a field of the instance
InstanceGet_MethodFirst(st, i, name) ==
    LET m == get_method(st.classes, st.insts[i].lox_class, name)
    IN  IF m # 0
        THEN IF name = "init" THEN Ok(st, InitLambdaV(i))
             ELSE LET s1 == bind(st, m, InstV(i))
                  IN  Ok(s1, FunV(Len(s1.funs)))
        ELSE IF name \in DOMAIN st.insts[i].fields
        THEN Ok(st, st.insts[i].fields[name])
        ELSE Raise(st, "AttributeError")

\* LoxInstance.get.  The __call__ attribute the method stores on the bound
\* function when the class has a base is never used by a call: Python looks
\* __call__ up on the type, so the wrapper does not change what a call does.
InstanceGet(st, i, name) ==
    IF name \in DOMAIN st.insts[i].fields THEN Ok(st, st.insts[i].fields[name])
    ELSE LET m == get_method(st.classes, st.insts[i].lox_class, name)
         IN  IF m = 0 THEN Raise(st, "AttributeError")
             ELSE IF name = "init" THEN Ok(st, InitLambdaV(i))
             ELSE LET s1 == bind(st, m, InstV(i))
                  IN  Ok(s1, FunV(Len(s1.funs)))

----------------------------------------------------------------------------
(* The evaluator: the eval methods of the nodes and the __call__ methods   *)
(* of the callables.  st is the heap with the print sink, the history and  *)
(* cur, the call whose body is running (0 at top level), and depth, the    *)
(* number of eval methods of nodes that are running; c is the Ctx the node *)
(* is evaluated in.                                                        *)

RECURSIVE Eval(_, _, _)
RECURSIVE EvalNode(_, _, _)
RECURSIVE ExecStmts(_, _, _, _)
RECURSIVE EvalParams(_, _, _, _, _)
RECURSIVE BuildMethods(_, _, _, _, _)
RECURSIVE CallFunction(_, _, _)
RECURSIVE CallClass(_, _, _)
RECURSIVE InstanceInit(_, _, _)
RECURSIVE Invoke(_, _, _)

\* stmt.eval(ctx) for a node in statement position, noted in the history
Exec(node, c, st) ==
    Eval(node, c, Log(st, Event("stmt", st.cur, 0, 0, 0, node.k, "", Nil)))

\* for stmt in stmts: stmt.eval(ctx)
ExecStmts(stmts, i, c, st) ==
    IF i > Len(stmts) THEN Ok(st, Nil)
    ELSE LET r == Exec(stmts[i], c, st)
         IN  IF r.sig # "ok" THEN r ELSE ExecStmts(stmts, i + 1, c, r.st)

\* [param.eval(ctx) for param in self.params]; val is the list of values
EvalParams(params, i, c, st, acc) ==
    IF i > Len(params) THEN Ok(st, acc)
    ELSE LET r == Eval(params[i], c, st)
         IN  IF r.sig # "ok" THEN r
             ELSE EvalParams(params, i + 1, c, r.st, Append(acc, r.val))

\* LoxFunction.__call__, the test of the number of arguments
ArityOk(names, values) == Len(names) = Len(values)

\* the frame of a call hangs off the global frame
CallScope_Global(st, fn, args) == NewCtx(st, ZipScope(fn.arg_names, args), 1)

\* the frame of the call is a child of the newest frame, that of the caller
CallScope_Dynamic(st, fn, args) ==
    NewCtx(st, ZipScope(fn.arg_names, args), Len(st.ctxs))

\* LoxFunction.__call__, the frame of the call: the parameters bound to the
\* arguments, in a child of the context the function captured
CallScope(st, fn, args) == NewCtx(st, ZipScope(fn.arg_names, args), fn.ctx)

\* LoxFunction.__call__; the identity of a call is the place of its entry
\* in the history, and the "exit" entry of a call that ran its body holds
\* the frame the body ran in
CallFunction(f, args, st) ==
    LET id == Len(st.trace) + 1
        fn == st.funs[f]
        s0 == Log(st, Event("call", id, f, Len(args), Len(fn.arg_names),
                            "", "", Nil))
    IN  IF ~ArityOk(fn.arg_names, args)
        THEN Raise(Log(s0, Event("exit", id, f, 0, 0, "raise", "TypeError", Nil)),
                   "TypeError")
        ELSE LET s1 == CallScope(s0, fn, args)
                 r == CatchReturn(ExecStmts(fn.body, 1, Len(s1.ctxs),
                                            [s1 EXCEPT !.cur = id]))
                 s2 == [r.st EXCEPT !.cur = st.cur]
             IN  Res(Log(s2, Event("exit", id, f, Len(s1.ctxs), 0,
                                   r.sig, r.err, r.val)),
                     r.sig, r.val, r.err)

\* LoxClass.__call__; the "new" entry of the history holds the instance, the
\* class, the number of arguments, the call of init (0: no init) and the
\* result
CallClass(c, args, st) ==
    LET s0 == NewInstance(st, c)
        i == Len(s0.insts)
        m == get_method(s0.classes, c, "init")
        sb == bind(s0, m, InstV(i))
        try == IF m = 0 THEN Raise(s0, "SemanticError")
               ELSE CallFunction(Len(sb.funs), args, sb)
        r == ClassCallResult(try, args, i)
    IN  Res(Log(r.st, Event("new", i, c, Len(args),
                            IF m = 0 THEN 0 ELSE Len(st.trace) + 1,
                            r.sig, r.err, r.val)),
            r.sig, r.val, r.err)

\* LoxInstance.init, called through the callable that get("init") returns
InstanceInit(i, args, st) ==
    LET m == get_method(st.classes, st.insts[i].lox_class, "init")
        sb == bind(st, m, InstV(i))
        try == IF m = 0 THEN Raise(st, "SemanticError")
               ELSE CallFunction(Len(sb.funs), args, sb)
        r == InstanceInitResult(try, i)
    IN  Res(Log(r.st, Event("init", i, st.insts[i].lox_class, Len(args),
                            IF m = 0 THEN 0 ELSE Len(st.trace) + 1,
                            r.sig, r.err, r.val)),
            r.sig, r.val, r.err)

\* Call.eval, from callable(func) on
Invoke(func, args, st) ==
    CASE func.t = "LoxFunction" -> CallFunction(func.n, args, st)
      [] func.t = "LoxClass" -> CallClass(func.n, args, st)
      [] func.t = "function" -> InstanceInit(func.n, args, st)
      [] OTHER -> Raise(st, "TypeError")

\* Class.eval, the try block that loads the superclass: r is the result of
\* evaluating the superclass expression; the value None stands for no base
SuperclassResult(r) ==
    IF r.sig = "ok"
    THEN IF r.val.t = "LoxClass" THEN r ELSE Raise(r.st, "RuntimeError")
    ELSE IF r.sig = "raise" /\ r.err = "RuntimeError" THEN r
    ELSE Ok(r.st, Nil)

\* Class.eval, the loop that builds the method table
BuildMethods(defs, i, mctx, st, table) ==
    IF i > Len(defs) THEN [st |-> st, table |-> table]
    ELSE LET s1 == NewFunction(st, defs[i].name, defs[i].arg_names,
                               defs[i].body, mctx)
         IN  BuildMethods(defs, i + 1, mctx, s1,
                          Bind(table, defs[i].name, Len(s1.funs)))

\* LoxClass(name, methods, base); the new class is the last of the table
NewClass(st, name, methods, base) ==
    [st EXCEPT !.classes = Append(@, [name |-> name, methods |-> methods,
                                      base |-> base])]

\* Class.eval after the superclass is loaded
ClassEval(node, c, st, superclass) ==
    LET base == IF superclass.t = "LoxClass" THEN superclass.n ELSE 0
        s1 == IF base = 0 THEN st
              ELSE LET sc == Child(st, c)
                   IN  VarDefine(sc, Len(sc.ctxs), "super", superclass)
        mctx == IF base = 0 THEN c ELSE Len(s1.ctxs)
        b == BuildMethods(node.methods, 1, mctx, s1, EmptyScope)
        s2 == NewClass(b.st, node.name, b.table, base)
    IN  Ok(VarDefine(s2, c, node.name, ClassV(Len(s2.classes))),
           ClassV(Len(s2.classes)))

RECURSIVE RootClass(_, _)
\* the class at the end of the chain of bases of class c
RootClass(cls, c) == IF cls[c].base = 0 THEN c ELSE RootClass(cls, cls[c].base)

\* the method is looked up in the root of the chain of the superclass
SuperEval_Root(node, c, st) ==
    IF ~Defines(st.ctxs, c, "super") \/ ~Defines(st.ctxs, c, "this")
    THEN Raise(st, "NameError")
    ELSE LET m == get_method(st.classes,
                             RootClass(st.classes, CtxGet(st.ctxs, c, "super").n),
                             node.method_name)
             s1 == bind(st, m, CtxGet(st.ctxs, c, "this"))
         IN  IF m = 0 THEN Raise(st, "SemanticError")
             ELSE Ok(s1, FunV(Len(s1.funs)))

\* Super.eval
SuperEval(node, c, st) ==
    IF ~Defines(st.ctxs, c, "super") \/ ~Defines(st.ctxs, c, "this")
    THEN Raise(st, "NameError")
    ELSE LET m == get_method(st.classes, CtxGet(st.ctxs, c, "super").n,
                             node.method_name)
             s1 == bind(st, m, CtxGet(st.ctxs, c, "this"))
         IN  IF m = 0 THEN Raise(st, "SemanticError")
             ELSE Ok(s1, FunV(Len(s1.funs)))

\* the assignment also binds the name in the current frame
AssignEval_AlsoLocal(node, c, st, value) ==
    IF Defines(st.ctxs, c, node.name)
    THEN Ok(VarDefine(CtxAssign(st, c, node.name, value), c, node.name, value),
            value)
    ELSE Raise(st, "NameError")

\* the assignment of an unbound name binds it in the global frame
AssignEval_Global(node, c, st, value) ==
    IF Defines(st.ctxs, c, node.name)
    THEN Ok(CtxAssign(st, c, node.name, value), value)
    ELSE Ok(VarDefine(st, 1, node.name, value), value)

\* Assign.eval after the value is evaluated
AssignEval(node, c, st, value) ==
    IF Defines(st.ctxs, c, node.name)
    THEN Ok(CtxAssign(st, c, node.name, value), value)
    ELSE Raise(st, "NameError")

\* the statements of a block run in the context of the block itself
BlockCtx_NoChild(st, c) == [st |-> st, c |-> c]

\* Block.eval, the context the statements of the block run in
BlockCtx(st, c) == [st |-> Child(st, c), c |-> Len(st.ctxs) + 1]

\* Getattr.eval after the object is evaluated.  The programs evaluated here
\* name no attribute that Python's getattr finds on a value other than an
\* instance.
GetattrEval(node, st, base) ==
    IF base.t = "LoxInstance" THEN InstanceGet(st, base.n, node.attr)
    ELSE Raise(st, "AttributeError")

\* Setattr.eval after the object and the value are evaluated.  Python's
\* setattr raises AttributeError for None, a bool, a number and a string;
\* the programs evaluated here set no attribute on the callable that
\* get("init") returns.
SetattrEval(node, st, obj, value) ==
    IF obj.t = "LoxInstance"
    THEN Ok(InstanceSet(Log(st, SetEvent(obj.n, node.attr, value)),
                        obj.n, node.attr, value),
            value)
    ELSE IF obj.t \in {"LoxClass", "LoxFunction"} THEN Raise(st, "RuntimeError")
    ELSE Raise(st, "AttributeError")

\* the right operand of and is always evaluated
AndStops_Never(left_value) == FALSE

\* And.eval, the test that ends the evaluation with the left value
AndStops(left_value) == ~is_lox_true(left_value)

\* Or.eval, the test that ends the evaluation with the left value
OrStops(left_value) == is_lox_true(left_value)

\* a Python call pushes one frame on the interpreter's own stack
Enter(st) == [st EXCEPT !.depth = @ + 1]

\* and its return pops the frame again
Leave(r, st) == [r EXCEPT !.st.depth = st.depth]

\* node.eval(ctx): the call of the method is one more frame of the
\* interpreter's own stack while its body runs
Eval(node, c, st) == Leave(EvalNode(node, c, Enter(st)), st)

\* the bodies of the eval methods
EvalNode(node, c, st) ==
    CASE node.k = "Literal" -> Ok(st, node.value)
      [] node.k = "Var" ->
            IF Defines(st.ctxs, c, node.name)
            THEN Ok(st, CtxGet(st.ctxs, c, node.name))
            ELSE Raise(st, "NameError")
      [] node.k = "BinOp" ->
            LET l == Eval(node.left, c, st)
                r == Eval(node.right, c, l.st)
            IN  IF l.sig # "ok" THEN l
                ELSE IF r.sig # "ok" THEN r
                ELSE LET res == ApplyBinOp(node.op, r.st, l.val, r.val)
                     IN  Res(Log(res.st, OpEvent(node.op, l.val, r.val, res)),
                             res.sig, res.val, res.err)
      [] node.k = "UnaryOp" ->
            LET v == Eval(node.expr, c, st)
            IN  IF v.sig # "ok" THEN v
                ELSE LET res == ApplyUnaryOp(node.op, v.st, v.val)
                     IN  Res(Log(res.st, OpEvent(node.op, v.val, Nil, res)),
                             res.sig, res.val, res.err)
      [] node.k = "And" ->
            LET l == Eval(node.left, c, st)
            IN  IF l.sig # "ok" THEN l
                ELSE IF AndStops(l.val) THEN l
                ELSE Eval(node.right, c, l.st)
      [] node.k = "Or" ->
            LET l == Eval(node.left, c, st)
            IN  IF l.sig # "ok" THEN l
                ELSE IF OrStops(l.val) THEN l
                ELSE Eval(node.right, c, l.st)
      [] node.k = "Call" ->
            LET f == Eval(node.callee, c, st)
                ps == EvalParams(node.params, 1, c, f.st, <<>>)
            IN  IF f.sig # "ok" THEN f
                ELSE IF ps.sig # "ok" THEN ps
                ELSE Invoke(f.val, ps.val, ps.st)
      [] node.k = "This" ->
            IF Defines(st.ctxs, c, "this")
            THEN Ok(st, CtxGet(st.ctxs, c, "this"))
            ELSE Raise(st, "NameError")
      [] node.k = "Super" -> SuperEval(node, c, st)
      [] node.k = "Assign" ->
            LET v == Eval(node.value, c, st)
            IN  IF v.sig # "ok" THEN v ELSE AssignEval(node, c, v.st, v.val)
      [] node.k = "Getattr" ->
            LET o == Eval(node.obj, c, st)
            IN  IF o.sig # "ok" THEN o ELSE GetattrEval(node, o.st, o.val)
      [] node.k = "Setattr" ->
            LET o == Eval(node.obj, c, st)
                v == Eval(node.value, c, o.st)
            IN  IF o.sig # "ok" THEN o
                ELSE IF v.sig # "ok" THEN v
                ELSE SetattrEval(node, v.st, o.val, v.val)
      [] node.k = "Print" ->
            LET v == Eval(node.expr, c, st)
            IN  IF v.sig # "ok" THEN v
                ELSE Ok([v.st EXCEPT !.out = Append(@, show(v.st, v.val))], Nil)
      [] node.k = "Return" ->
            LET v == Eval(node.value, c, st)
            IN  IF v.sig # "ok" THEN v
                ELSE LoxReturn(Log(v.st, Event("return", v.st.cur, 0, 0, 0,
                                               "", "", v.val)), v.val)
      [] node.k = "VarDef" ->
            LET v == Eval(node.value, c, st)
            IN  IF v.sig # "ok" THEN v
                ELSE Ok(VarDefine(v.st, c, node.name, v.val), Nil)
      [] node.k = "If" ->
            LET v == Eval(node.cond, c, st)
            IN  IF v.sig # "ok" THEN v
                ELSE IF is_lox_true(v.val) THEN Exec(node.then, c, v.st)
                ELSE Exec(node.orelse, c, v.st)
      [] node.k = "While" ->
            \* the "while" entry of the history holds the depth of the frame
            \* of this call of While.eval; the last line is self.eval(ctx)
            LET v == Eval(node.cond, c,
                          Log(st, Event("while", st.depth, 0, 0, 0, "", "", Nil)))
                b == Exec(node.body, c, v.st)
            IN  IF v.sig # "ok" THEN v
                ELSE IF ~is_lox_true(v.val) THEN Ok(v.st, Nil)
                ELSE IF b.sig # "ok" THEN b
                ELSE Eval(node, c, b.st)
      [] node.k = "Block" ->
            LET b == BlockCtx(st, c)
            IN  ExecStmts(node.stmts, 1, b.c, b.st)
      [] node.k = "Function" ->
            LET s1 == NewFunction(st, node.name, node.arg_names, node.body, c)
            IN  Ok(VarDefine(s1, c, node.name, FunV(Len(s1.funs))),
                   FunV(Len(s1.funs)))
      [] node.k = "Class" ->
            \* the "class" entry of the history holds the class created (0:
            \* none), the frame, what the superclass expression did (0: there
            \* is none, 1: a class, 2: another value, 3: it raised), the base
            \* of the class created and the result of the declaration
            LET raw == IF Len(node.superclass) = 0 THEN Ok(st, Nil)
                       ELSE Eval(node.superclass[1], c, st)
                how == IF Len(node.superclass) = 0 THEN 0
                       ELSE IF raw.sig # "ok" THEN 3
                       ELSE IF raw.val.t = "LoxClass" THEN 1 ELSE 2
                sup == IF Len(node.superclass) = 0 THEN raw
                       ELSE SuperclassResult(raw)
                r == IF sup.sig # "ok" THEN sup
                     ELSE ClassEval(node, c, sup.st, sup.val)
                made == IF r.sig = "ok" THEN r.val.n ELSE 0
            IN  Res(Log(r.st, Event("class", made, c, how,
                                    IF made = 0 THEN 0
                                    ELSE r.st.classes[made].base,
                                    r.sig, r.err, Nil)),
                    r.sig, r.val, r.err)


----------------------------------------------------------------------------
(* The static validator: the validate_self hooks of the nodes, called on   *)
(* every node of the tree with the chain of its ancestors (nearest first). *)

RESERVED_WORDS ==
    {"and", "class", "else", "false", "for", "fun", "if", "nil",
     "or", "print", "return", "super", "this", "true", "var", "while"}

\* the child nodes of a node, in the order of its fields
Children(node) ==
    CASE node.k \in {"BinOp", "And", "Or"} -> <<node.left, node.right>>
      [] node.k = "UnaryOp" -> <<node.expr>>
      [] node.k = "Call" -> <<node.callee>> \o node.params
      [] node.k \in {"Assign", "Return", "VarDef"} -> <<node.value>>
      [] node.k = "Getattr" -> <<node.obj>>
      [] node.k = "Setattr" -> <<node.obj, node.value>>
      [] node.k = "Print" -> <<node.expr>>
      [] node.k = "If" -> <<node.cond, node.then, node.orelse>>
      [] node.k = "While" -> <<node.cond, node.body>>
      [] node.k \in {"Block", "Program"} -> node.stmts
      [] node.k = "Function" -> node.body
      [] node.k = "Class" -> node.superclass \o node.methods
      [] OTHER -> <<>>

\* Var.validate_self raises
VarInvalid(node) == node.name \in RESERVED_WORDS

\* This.validate_self raises
ThisInvalid(parents) == ~\E i \in DOMAIN parents : parents[i].k = "Class"

\* Super.validate_self raises: the nearest class has no superclass, or there
\* is no class
SuperInvalid(parents) ==
    LET cs == {i \in DOMAIN parents : parents[i].k = "Class"}
        first == CHOOSE i \in cs : \A j \in cs : i <= j
    IN  cs = {} \/ Len(parents[first].superclass) = 0

\* a return of a value is rejected in every function named init
ReturnInvalid_AnyInit(node, parents) ==
    LET fs == {i \in DOMAIN parents : parents[i].k = "Function"}
        first == CHOOSE i \in fs : \A j \in fs : i <= j
    IN  IF fs = {} THEN TRUE
        ELSE /\ parents[first].name = "init"
             /\ ~(node.value.k = "Literal" /\ node.value.value.t = "NoneType")

\* a return is accepted anywhere
ReturnInvalid_Never(node, parents) == FALSE

\* Return.validate_self raises
ReturnInvalid(node, parents) ==
    LET fs == {i \in DOMAIN parents : parents[i].k = "Function"}
        first == CHOOSE i \in fs : \A j \in fs : i <= j
    IN  IF fs = {} THEN TRUE
        ELSE /\ parents[first].name = "init"
             /\ first < Len(parents)
             /\ parents[first + 1].k = "Class"
             /\ ~(node.value.k = "Literal" /\ node.value.value.t = "NoneType")

RECURSIVE uses_variable_in_expression(_, _)
\* VarDef._uses_variable_in_expression
uses_variable_in_expression(expr, var_name) ==
    CASE expr.k = "Var" -> expr.name = var_name
      [] expr.k = "BinOp" ->
            \/ uses_variable_in_expression(expr.left, var_name)
            \/ uses_variable_in_expression(expr.right, var_name)
      [] expr.k = "UnaryOp" -> uses_variable_in_expression(expr.expr, var_name)
      [] expr.k = "Call" ->
            \/ uses_variable_in_expression(expr.callee, var_name)
            \/ \E i \in DOMAIN expr.params :
                  uses_variable_in_expression(expr.params[i], var_name)
      [] expr.k = "Getattr" -> uses_variable_in_expression(expr.obj, var_name)
      [] expr.k = "Setattr" ->
            \/ uses_variable_in_expression(expr.obj, var_name)
            \/ uses_variable_in_expression(expr.value, var_name)
      [] expr.k = "Assign" -> uses_variable_in_expression(expr.value, var_name)
      [] OTHER -> FALSE

\* VarDef.validate_self raises
VarDefInvalid(node, parents) ==
    \/ node.name \in RESERVED_WORDS
    \/ /\ uses_variable_in_expression(node.value, node.name)
       /\ \E i \in DOMAIN parents :
             /\ parents[i].k = "Block"
             /\ \A j \in 1..(i - 1) : parents[j].k # "Program"

\* Block.validate_self raises
BlockInvalid(node) ==
    \E i, j \in DOMAIN node.stmts :
        /\ i < j
        /\ node.stmts[i].k = "VarDef"
        /\ node.stmts[j].k = "VarDef"
        /\ node.stmts[i].name = node.stmts[j].name

RECURSIVE check_vardefs_in_body(_, _)
\* Function._check_vardefs_in_body raises
check_vardefs_in_body(stmts, param_set) ==
    \E i \in DOMAIN stmts :
        \/ stmts[i].k = "VarDef" /\ stmts[i].name \in param_set
        \/ stmts[i].k = "Block" /\ check_vardefs_in_body(stmts[i].stmts, param_set)

\* Function.validate_self raises
FunctionInvalid(node) ==
    \/ \E i, j \in DOMAIN node.arg_names :
          i < j /\ node.arg_names[i] = node.arg_names[j]
    \/ \E i \in DOMAIN node.arg_names : node.arg_names[i] \in RESERVED_WORDS
    \/ check_vardefs_in_body(node.body,
                             {node.arg_names[i] : i \in DOMAIN node.arg_names})

\* Class.validate_self raises
ClassInvalid(node) ==
    \/ /\ Len(node.superclass) = 1
       /\ node.superclass[1].k = "Var"
       /\ node.superclass[1].name = node.name
    \/ \E i \in DOMAIN node.methods : FunctionInvalid(node.methods[i])

\* the validate_self hook of a node raises
HookInvalid(node, parents) ==
    CASE node.k = "Var" -> VarInvalid(node)
      [] node.k = "This" -> ThisInvalid(parents)
      [] node.k = "Super" -> SuperInvalid(parents)
      [] node.k = "Return" -> ReturnInvalid(node, parents)
      [] node.k = "VarDef" -> VarDefInvalid(node, parents)
      [] node.k = "Block" -> BlockInvalid(node)
      [] node.k = "Function" -> FunctionInvalid(node)
      [] node.k = "Class" -> ClassInvalid(node)
      [] OTHER -> FALSE

RECURSIVE Invalid(_, _)
\* the validation of the tree under node raises a SemanticError
Invalid(node, parents) ==
    \/ HookInvalid(node, parents)
    \/ \E i \in DOMAIN Children(node) :
          Invalid(Children(node)[i], <<node>> \o parents)

----------------------------------------------------------------------------
(* The programs evaluated.  Each family is a program text with choices     *)
(* left open; input records the choices made.                              *)

MaxArity == 2       \* most parameters and most arguments of a call
MaxNest == 2        \* deepest nesting of blocks, ifs and loops
MaxCalls == 2       \* most calls of one closure
MaxIter == 2        \* most iterations of a loop

Num(i) == Literal(IntV(i))

Str(s) == Literal(StrV(s))

\* the parameter names p1, ..., pn
Params(n) == [i \in 1..n |-> "p" \o ShowNat(i)]

\* the argument expressions 1, ..., k
Args(k) == [i \in 1..k |-> Num(i)]

InitBodies == {"empty", "field", "name", "type", "attr", "return"}

\* the body of init: it ends normally (empty, field, return) or raises
\* NameError (name), LoxError (type) or AttributeError (attr)
InitBody(b, n) ==
    CASE b = "empty" -> <<>>
      [] b = "field" -> <<Setattr(This, "f", IF n > 0 THEN Var("p1") ELSE Num(5))>>
      [] b = "name" -> <<Setattr(This, "f", Num(5)), PrintStmt(Var("undefined"))>>
      [] b = "type" -> <<PrintStmt(BinOp(Num(1), Literal(Nil), "add"))>>
      [] b = "attr" -> <<PrintStmt(Getattr(This, "missing"))>>
      [] b = "return" -> <<Setattr(This, "f", Num(5)), Return(Literal(Nil)),
                           Setattr(This, "g", Num(6))>>

\* class A { init(p1..pn) { body } }  [class B < A {}]
\* var r = A(1..k);  (or B(1..k))   print "after";
ConstructProgram(hasInit, n, b, k, inherit) ==
    Program(
        <<Class("A", <<>>,
                IF hasInit THEN <<Function("init", Params(n), InitBody(b, n))>>
                ELSE <<>>)>>
        \o (IF inherit THEN <<Class("B", <<Var("A")>>, <<>>)>> ELSE <<>>)
        \o <<VarDef("r", Call(Var(IF inherit THEN "B" ELSE "A"), Args(k))),
             PrintStmt(Str("after"))>>)

----------------------------------------------------------------------------
(* The embedding program: validate, then Program.eval, one statement of    *)
(* its loop at a time.                                                     *)

Heap == [ctxs |-> ctxs, funs |-> funs, classes |-> classes, insts |-> insts,
         out |-> out, trace |-> trace, cur |-> 0, depth |-> 0]

Init ==
    /\ ctxs = <<>>
    /\ funs = <<>>
    /\ classes = <<>>
    /\ insts = <<>>
    /\ out = <<>>
    /\ trace = <<>>
    /\ prog = Program(<<>>)
    /\ pc = 0
    /\ phase = "idle"
    /\ error = ""
    /\ input = [family |-> "none"]

\* validate(program), then the start of Program.eval on a fresh Ctx()
Load(p, inp) ==
    /\ phase = "idle"
    /\ prog' = p
    /\ input' = inp
    /\ IF Invalid(p, <<>>)
       THEN /\ phase' = "rejected"
            /\ error' = "SemanticError"
            /\ UNCHANGED <<ctxs, pc>>
       ELSE /\ phase' = IF Len(p.stmts) = 0 THEN "done" ELSE "running"
            /\ error' = ""
            /\ ctxs' = <<[scope |-> EmptyScope, parent |-> 0]>>
            /\ pc' = 1
    /\ UNCHANGED <<funs, classes, insts, out, trace>>

\* Program.eval: stmt.eval(ctx) for the next statement
Step ==
    /\ phase = "running"
    /\ LET r == Exec(prog.stmts[pc], 1, Heap)
       IN  /\ ctxs' = r.st.ctxs
           /\ funs' = r.st.funs
           /\ classes' = r.st.classes
           /\ insts' = r.st.insts
           /\ out' = r.st.out
           /\ trace' = r.st.trace
           /\ phase' = IF r.sig = "raise" THEN "error"
                       ELSE IF r.sig = "return" THEN "escaped"
                       ELSE IF pc = Len(prog.stmts) THEN "done"
                       ELSE "running"
           /\ error' = IF r.sig = "raise" THEN r.err ELSE ""
           /\ pc' = IF r.sig = "ok" THEN pc + 1 ELSE pc
    /\ UNCHANGED <<prog, input>>

LoadConstruct ==
    /\ phase = "idle"
    /\ \E hasInit \in BOOLEAN, n \in 0..MaxArity, b \in InitBodies,
          k \in 0..MaxArity, inherit \in BOOLEAN :
           Load(ConstructProgram(hasInit, n, b, k, inherit),
                [family |-> "construct", hasInit |-> hasInit, n |-> n, b |-> b,
                 k |-> k, inherit |-> inherit])

FunBodies == {"empty", "print", "return"}

\* the body of a function or method
FunBody(b) ==
    CASE b = "empty" -> <<>>
      [] b = "print" -> <<PrintStmt(Str("body"))>>
      [] b = "return" -> <<PrintStmt(Str("body")), Return(Num(7))>>

CallKinds == {"function", "method", "inherited", "init"}

\* fun f(p1..pn) { body }   class A { m(p1..pn) { body } init(p1..pn) { body } }
\* class B < A {}   var a = A(1..n);  var b = B(1..n);
\* print f(1..k);  (or a.m(1..k), b.m(1..k), a.init(1..k))   print "after";
CallProgram(kind, n, b, k) ==
    Program(
        <<Function("f", Params(n), FunBody(b)),
          Class("A", <<>>, <<Function("m", Params(n), FunBody(b)),
                             Function("init", Params(n), FunBody("print"))>>),
          Class("B", <<Var("A")>>, <<>>),
          VarDef("a", Call(Var("A"), Args(n))),
          VarDef("b", Call(Var("B"), Args(n))),
          PrintStmt(Call(CASE kind = "function" -> Var("f")
                           [] kind = "method" -> Getattr(Var("a"), "m")
                           [] kind = "inherited" -> Getattr(Var("b"), "m")
                           [] kind = "init" -> Getattr(Var("a"), "init"),
                         Args(k))),
          PrintStmt(Str("after"))>>)

LoadCall ==
    /\ phase = "idle"
    /\ \E kind \in CallKinds, n \in 0..MaxArity, b \in FunBodies, k \in 0..MaxArity :
           Load(CallProgram(kind, n, b, k),
                [family |-> "call", kind |-> kind, n |-> n, b |-> b, k |-> k])

SuperKinds == {"none", "class", "int", "nil", "str", "function", "instance",
               "unbound"}

RECURSIVE Nest(_, _)
\* the statements stmts inside depth blocks
Nest(stmts, depth) ==
    IF depth = 0 THEN stmts ELSE <<Block(Nest(stmts, depth - 1))>>

\* what the name A is bound to before the declaration of B
SuperSetup(sup) ==
    CASE sup = "class" -> <<Class("A", <<>>, <<Function("m", <<>>, <<Return(Num(1))>>)>>)>>
      [] sup = "int" -> <<VarDef("A", Num(1))>>
      [] sup = "nil" -> <<VarDef("A", Literal(Nil))>>
      [] sup = "str" -> <<VarDef("A", Str("A"))>>
      [] sup = "function" -> <<Function("A", <<>>, <<>>)>>
      [] sup = "instance" -> <<Class("K", <<>>, <<>>), VarDef("A", Call(Var("K"), <<>>))>>
      [] OTHER -> <<>>

\* <A>  { ... { class B < A { g() { return 2; } }  print B; } ... }  print "after";
\* (class B { ... } when sup is "none")
ClassDeclProgram(sup, depth) ==
    Program(
        SuperSetup(sup)
        \o Nest(<<Class("B", IF sup = "none" THEN <<>> ELSE <<Var("A")>>,
                        <<Function("g", <<>>, <<Return(Num(2))>>)>>),
                  PrintStmt(Var("B"))>>, depth)
        \o <<PrintStmt(Str("after"))>>)

LoadClassDecl ==
    /\ phase = "idle"
    /\ \E sup \in SuperKinds, depth \in 0..MaxNest :
           Load(ClassDeclProgram(sup, depth),
                [family |-> "classdecl", sup |-> sup, depth |-> depth])

WrapKinds == {"block", "then", "else", "while"}

\* the nestings of at most MaxNest blocks, ifs and loops, outermost first
WrapSeqs == UNION {[1..n -> WrapKinds] : n \in 0..MaxNest}

\* statement s inside one block, if or loop; the loop runs MaxIter times
\* and reaches s in the iterations from the j-th on (counted from 0)
Wrap(kind, j, s) ==
    CASE kind = "block" -> Block(<<s, PrintStmt(Str("tail"))>>)
      [] kind = "then" -> If(Literal(BoolV(TRUE)), s, Block(<<>>))
      [] kind = "else" -> If(Literal(Nil), Block(<<>>), s)
      [] kind = "while" ->
            Block(<<VarDef("i", Num(0)),
                    While(BinOp(Var("i"), Num(MaxIter), "lt"),
                          Block(<<If(BinOp(Var("i"), Num(j), "ge"), s, Block(<<>>)),
                                  PrintStmt(Str("iter")),
                                  Assign("i", BinOp(Var("i"), Num(1), "add"))>>))>>)

RECURSIVE Wrapped(_, _, _, _)
\* statement s inside the nesting w[i], ..., w[Len(w)]
Wrapped(w, i, j, s) ==
    IF i > Len(w) THEN s ELSE Wrap(w[i], j, Wrapped(w, i + 1, j, s))

ReturnPlaces == {"function", "nested", "method", "init", "top"}

\* print "pre";  <nesting>( return v; )  print "post";
\* (print "inner"; in the place of the return when ret is false)
ReturnBody(w, j, ret, v) ==
    <<PrintStmt(Str("pre")),
      Wrapped(w, 1, j, IF ret THEN Return(IF v = "nil" THEN Literal(Nil) ELSE Num(42))
                       ELSE PrintStmt(Str("inner"))),
      PrintStmt(Str("post"))>>

\* function: fun f(p1) { body }  print f(1);
\* nested:   fun f(p1) { body }  fun g() { var r = f(1); print "back"; return r; }
\*           print g();
\* method:   class K { m(p1) { body } }  print K().m(1);
\* init:     class K { init(p1) { body } }  print K(1);
\* top:      body
\* each followed by print "after";
ReturnProgram(place, w, j, ret, v) ==
    Program(
        (CASE place = "function" ->
                <<Function("f", Params(1), ReturnBody(w, j, ret, v)),
                  PrintStmt(Call(Var("f"), Args(1)))>>
           [] place = "nested" ->
                <<Function("f", Params(1), ReturnBody(w, j, ret, v)),
                  Function("g", <<>>,
                           <<VarDef("r", Call(Var("f"), Args(1))),
                             PrintStmt(Str("back")),
                             Return(Var("r"))>>),
                  PrintStmt(Call(Var("g"), <<>>))>>
           [] place = "method" ->
                <<Class("K", <<>>, <<Function("m", Params(1), ReturnBody(w, j, ret, v))>>),
                  PrintStmt(Call(Getattr(Call(Var("K"), <<>>), "m"), Args(1)))>>
           [] place = "init" ->
                <<Class("K", <<>>, <<Function("init", Params(1), ReturnBody(w, j, ret, v))>>),
                  PrintStmt(Call(Var("K"), Args(1)))>>
           [] place = "top" -> ReturnBody(w, j, ret, v))
        \o <<PrintStmt(Str("after"))>>)

LoadReturn ==
    /\ phase = "idle"
    /\ \E place \in ReturnPlaces, w \in WrapSeqs, j \in 0..MaxIter,
          ret \in BOOLEAN, v \in {"nil", "int"} :
           /\ ret \/ (v = "nil" /\ j = 0)
           /\ (\E n \in DOMAIN w : w[n] = "while") \/ j = 0
           /\ Load(ReturnProgram(place, w, j, ret, v),
                   [family |-> "return", place |-> place, w |-> w, j |-> j,
                    ret |-> ret, v |-> v])

Captures == {"local", "param", "block"}

\* the sequences of calls of the closures a and b, at most MaxCalls of each
CallOrders ==
    {o \in UNION {[1..n -> {"a", "b"}] : n \in 0..(2 * MaxCalls)} :
        \A name \in {"a", "b"} :
            Cardinality({i \in DOMAIN o : o[i] = name}) <= MaxCalls}

\* fun inc() { <name> = <name> + 1; return <name>; }
Inc(name) ==
    Function("inc", <<>>,
             <<Assign(name, BinOp(Var(name), Num(1), "add")), Return(Var(name))>>)

\* local: fun make(p1) { var n = p1; fun inc() {..n..} return inc; }
\* param: fun make(p1) { fun inc() {..p1..} return inc; }
\* block: fun make(p1) { var r; { var n = p1; fun inc() {..n..} r = inc; } return r; }
\* var a = make(10);  var b = make(20);  print a(); or print b(); in the order o
ClosureProgram(capture, o) ==
    Program(
        <<Function("make", Params(1),
                   CASE capture = "local" ->
                           <<VarDef("n", Var("p1")), Inc("n"), Return(Var("inc"))>>
                     [] capture = "param" ->
                           <<Inc("p1"), Return(Var("inc"))>>
                     [] capture = "block" ->
                           <<VarDef("r", Literal(Nil)),
                             Block(<<VarDef("n", Var("p1")), Inc("n"),
                                     Assign("r", Var("inc"))>>),
                             Return(Var("r"))>>),
          VarDef("a", Call(Var("make"), <<Num(10)>>)),
          VarDef("b", Call(Var("make"), <<Num(20)>>))>>
        \o [i \in DOMAIN o |-> PrintStmt(Call(Var(o[i]), <<>>))])

LoadClosure ==
    /\ phase = "idle"
    /\ \E capture \in Captures, o \in CallOrders :
           Load(ClosureProgram(capture, o),
                [family |-> "closure", capture |-> capture, o |-> o])

\* the statement at the innermost level of a program of the scope family
Innermost(op, via) ==
    IF op = "none" THEN <<>>
    ELSE IF via = "call"
    THEN <<Function("f", <<>>, <<PrintStmt(Assign("x", Num(99)))>>),
           Call(Var("f"), <<>>)>>
    ELSE <<PrintStmt(Assign("x", Num(99)))>>

RECURSIVE Level(_, _, _, _, _)
\* [var x = 10 + l;]  { the level l + 1 } or the innermost statement;  print x;
Level(l, depth, defs, op, via) ==
    (IF l \in defs THEN <<VarDef("x", Num(10 + l))>> ELSE <<>>)
    \o (IF l < depth THEN <<Block(Level(l + 1, depth, defs, op, via))>>
        ELSE Innermost(op, via))
    \o <<PrintStmt(Var("x"))>>

\* depth nested blocks under the top level (level 0); the levels in defs
\* declare x; the innermost level assigns x (op "assign"), inline or in the
\* body of a function declared and called there; each level prints x after
\* the level inside it
ScopeProgram(depth, defs, op, via) == Program(Level(0, depth, defs, op, via))

LoadScope ==
    /\ phase = "idle"
    /\ \E depth \in 0..MaxNest, op \in {"none", "assign"}, via \in {"inline", "call"} :
           \E defs \in SUBSET (0..depth) :
               /\ op = "none" => via = "inline"
               /\ Load(ScopeProgram(depth, defs, op, via),
                       [family |-> "scope", depth |-> depth, defs |-> defs,
                        op |-> op, via |-> via])

IdentityKinds == {"instances", "classes", "functions", "methods"}

\* the statements o.p1 = 1; ... o.pn = 1; (the last one = 2 when ~same)
SetFields(o, n, same) ==
    [i \in 1..n |-> Setattr(Var(o), Params(n)[i],
                            Num(IF i = n /\ ~same THEN 2 ELSE 1))]

\* the methods p1() {} ... pn() {}
EmptyMethods(n) == [i \in 1..n |-> Function(Params(n)[i], <<>>, <<>>)]

\* instances: class A {}  var a = A();  var b = A();
\*            a.p1 = 1; .. a.pn = 1;  b.p1 = 1; .. b.pn = 1;  (or b.pn = 2)
\* classes:   class A { p1() {} .. pn() {} }  var a = A;
\*            class A { p1() {} .. pn() {} }  var b = A;
\* functions: fun f(p1..pn) {}  var a = f;  fun f(p1..pn) {}  var b = f;
\* methods:   class A { m(p1..pn) {} }  var o = A();  var a = o.m;  var b = o.m;
\* each followed by  print a == b;  print a != b;  print a == a;
IdentityProgram(kind, n, same) ==
    Program(
        (CASE kind = "instances" ->
                <<Class("A", <<>>, <<>>),
                  VarDef("a", Call(Var("A"), <<>>)),
                  VarDef("b", Call(Var("A"), <<>>))>>
                \o SetFields("a", n, TRUE) \o SetFields("b", n, same)
           [] kind = "classes" ->
                <<Class("A", <<>>, EmptyMethods(n)), VarDef("a", Var("A")),
                  Class("A", <<>>, EmptyMethods(n)), VarDef("b", Var("A"))>>
           [] kind = "functions" ->
                <<Function("f", Params(n), <<>>), VarDef("a", Var("f")),
                  Function("f", Params(n), <<>>), VarDef("b", Var("f"))>>
           [] kind = "methods" ->
                <<Class("A", <<>>, <<Function("m", Params(n), <<>>)>>),
                  VarDef("o", Call(Var("A"), <<>>)),
                  VarDef("a", Getattr(Var("o"), "m")),
                  VarDef("b", Getattr(Var("o"), "m"))>>)
        \o <<PrintStmt(BinOp(Var("a"), Var("b"), "eq")),
             PrintStmt(BinOp(Var("a"), Var("b"), "ne")),
             PrintStmt(BinOp(Var("a"), Var("a"), "eq"))>>)

LoadIdentity ==
    /\ phase = "idle"
    /\ \E kind \in IdentityKinds, n \in 0..MaxArity, same \in BOOLEAN :
           /\ same \/ (kind = "instances" /\ n > 0)
           /\ Load(IdentityProgram(kind, n, same),
                   [family |-> "identity", kind |-> kind, n |-> n, same |-> same])

BinOps == {"add", "sub", "mul", "truediv", "ge", "le", "gt", "lt", "eq", "ne"}

UnaryOps == {"neg", "not_"}

OperandKinds == {"zero", "one", "dec", "quot", "half",
                 "true", "false", "nil", "str", "obj"}

\* an operand: the literals 0, 1, 1.0 and 0.5, the quotient 2 / 2, the
\* literals true, false, nil and "s", and a new instance of K
Operand(kind) ==
    CASE kind = "zero" -> Num(0)
      [] kind = "one" -> Num(1)
      [] kind = "dec" -> Literal(FloatV(1, 1))
      [] kind = "quot" -> BinOp(Num(2), Num(2), "truediv")
      [] kind = "half" -> Literal(FloatV(1, 2))
      [] kind = "true" -> Literal(BoolV(TRUE))
      [] kind = "false" -> Literal(BoolV(FALSE))
      [] kind = "nil" -> Literal(Nil)
      [] kind = "str" -> Str("s")
      [] kind = "obj" -> Call(Var("K"), <<>>)

\* [class K {}]  print <l> op <r>;   (print op <l>; for a unary operator)
OperatorProgram(op, l, r) ==
    Program(
        (IF "obj" \in {l, r} THEN <<Class("K", <<>>, <<>>)>> ELSE <<>>)
        \o <<PrintStmt(IF op \in UnaryOps THEN UnaryOp(op, Operand(l))
                       ELSE BinOp(Operand(l), Operand(r), op))>>)

LoadOperator ==
    /\ phase = "idle"
    /\ \E op \in BinOps \cup UnaryOps, l \in OperandKinds, r \in OperandKinds :
           /\ op \in UnaryOps => r = l
           /\ Load(OperatorProgram(op, l, r),
                   [family |-> "operator", op |-> op, l |-> l, r |-> r])

ValueKinds == OperandKinds \cup {"nan", "negzero", "fn", "cls", "method", "initfn"}

\* an expression for a value of each kind: also 1 / 0, -0, the function f,
\* the class K, a bound method and the callable that get("init") returns
Producer(kind) ==
    CASE kind = "nan" -> BinOp(Num(1), Num(0), "truediv")
      [] kind = "negzero" -> UnaryOp("neg", Num(0))
      [] kind = "fn" -> Var("f")
      [] kind = "cls" -> Var("K")
      [] kind = "method" -> Getattr(Call(Var("K"), <<>>), "m")
      [] kind = "initfn" -> Getattr(Call(Var("K"), <<>>), "init")
      [] OTHER -> Operand(kind)

\* fun f() {}  class K { m() {} init() {} }
\* var v = <value>;  print v == v;  print v != v;
ReflexiveProgram(kind) ==
    Program(<<Function("f", <<>>, <<>>),
              Class("K", <<>>, <<Function("m", <<>>, <<>>),
                                 Function("init", <<>>, <<>>)>>),
              VarDef("v", Producer(kind)),
              PrintStmt(BinOp(Var("v"), Var("v"), "eq")),
              PrintStmt(BinOp(Var("v"), Var("v"), "ne"))>>)

LoadReflexive ==
    /\ phase = "idle"
    /\ \E kind \in ValueKinds :
           Load(ReflexiveProgram(kind), [family |-> "reflexive", kind |-> kind])

MaxChain == 3       \* most classes in a chain of inheritance

\* the name of the i-th class of a chain, the root being the first
ClassName(i) == "K" \o ShowNat(i)

\* m() { print "Ki"; return super.m(); }   when sup, for a class with a base
\* m() { print "Ki"; this.by = i; return this; }   otherwise
ChainMethod(i, sup) ==
    Function("m", <<>>,
             IF sup /\ i > 1
             THEN <<PrintStmt(Str(ClassName(i))), Return(Call(Super("m"), <<>>))>>
             ELSE <<PrintStmt(Str(ClassName(i))), Setattr(This, "by", Num(i)),
                    Return(This)>>)

\* class K1 {..}  class K2 < K1 {..}  ...  class Klen < K(len-1) {..}
\* var o = Kat();  var r = o.m();  print "after";
\* the classes in defs declare m
ChainProgram(len, defs, at, sup) ==
    Program(
        [i \in 1..len |->
            Class(ClassName(i),
                  IF i = 1 THEN <<>> ELSE <<Var(ClassName(i - 1))>>,
                  IF i \in defs THEN <<ChainMethod(i, sup)>> ELSE <<>>)]
        \o <<VarDef("o", Call(Var(ClassName(at)), <<>>)),
             VarDef("r", Call(Getattr(Var("o"), "m"), <<>>)),
             PrintStmt(Str("after"))>>)

LoadChain ==
    /\ phase = "idle"
    /\ \E len \in 1..MaxChain, sup \in BOOLEAN :
           \E defs \in SUBSET (1..len), at \in 1..len :
               Load(ChainProgram(len, defs, at, sup),
                    [family |-> "chain", len |-> len, defs |-> defs, at |-> at,
                     sup |-> sup])

MaxWrites == 2      \* most writes of one field

\* the attribute names: a method of the class, a method of its base, init,
\* and a name that is no method
AttrNames == {"n", "up", "init", "x"}

\* class A { up() { return 0; } init() {} }  class K < A { n() { return 0; } }
\* var i = K();  [print i.attr;]
\* print i.attr = 1;  print i.attr;  ...  print i.attr = w;  print i.attr;
FieldProgram(attr, w, pre) ==
    Program(
        <<Class("A", <<>>, <<Function("up", <<>>, <<Return(Num(0))>>),
                             Function("init", <<>>, <<>>)>>),
          Class("K", <<Var("A")>>, <<Function("n", <<>>, <<Return(Num(0))>>)>>),
          VarDef("i", Call(Var("K"), <<>>))>>
        \o (IF pre THEN <<PrintStmt(Getattr(Var("i"), attr))>> ELSE <<>>)
        \o [j \in 1..(2 * w) |->
               IF j % 2 = 1
               THEN PrintStmt(Setattr(Var("i"), attr, Num((j + 1) \div 2)))
               ELSE PrintStmt(Getattr(Var("i"), attr))])

LoadField ==
    /\ phase = "idle"
    /\ \E attr \in AttrNames, w \in 0..MaxWrites, pre \in BOOLEAN :
           Load(FieldProgram(attr, w, pre),
                [family |-> "field", attr |-> attr, w |-> w, pre |-> pre])

LogicOps == {"and", "or"}

LogicValues == {"nil", "false", "zero", "str"}

\* the node of a logical operator
Logic(op, left, right) == IF op = "and" THEN And(left, right) ELSE Or(left, right)

\* fun r1() { print "r1"; return <v1>; }   var x = "unset";
\* print (<l> op1 r1()) op2 (x = <v2>);   print x;
LogicProgram(op1, op2, l, v1, v2) ==
    Program(<<Function("r1", <<>>, <<PrintStmt(Str("r1")), Return(Operand(v1))>>),
              VarDef("x", Str("unset")),
              PrintStmt(Logic(op2, Logic(op1, Operand(l), Call(Var("r1"), <<>>)),
                              Assign("x", Operand(v2)))),
              PrintStmt(Var("x"))>>)

LoadLogic ==
    /\ phase = "idle"
    /\ \E op1 \in LogicOps, op2 \in LogicOps,
          l \in LogicValues, v1 \in LogicValues, v2 \in LogicValues :
           Load(LogicProgram(op1, op2, l, v1, v2),
                [family |-> "logic", op1 |-> op1, op2 |-> op2, l |-> l,
                 v1 |-> v1, v2 |-> v2])

LoopBodies == {"stmt", "block"}

\* { .. {  var i = 0;  while (i < n) i = i + 1;  print i;  } .. }
\* (while (i < n) { i = i + 1; } when the body is a block)
LoopProgram(n, body, nest) ==
    Program(Nest(<<VarDef("i", Num(0)),
                   While(BinOp(Var("i"), Num(n), "lt"),
                         IF body = "block"
                         THEN Block(<<Assign("i", BinOp(Var("i"), Num(1), "add"))>>)
                         ELSE Assign("i", BinOp(Var("i"), Num(1), "add"))),
                   PrintStmt(Var("i"))>>, nest))

LoadLoop ==
    /\ phase = "idle"
    /\ \E n \in 0..MaxIter, body \in LoopBodies, nest \in 0..MaxNest :
           Load(LoopProgram(n, body, nest),
                [family |-> "loop", n |-> n, body |-> body, nest |-> nest])

\* where the declaration  var x = <initializer>;  stands
DeclPlaces == {"top", "block", "then", "function", "method", "fnblock"}

\* the initializers that read x, by the expression x is an operand of
SelfShapes == {"var", "left", "right", "and", "or", "callee", "arg",
               "attr", "setobj", "setval", "assign"}

\* and two that do not read it
InitShapes == SelfShapes \cup {"target", "other"}

Initializer(shape) ==
    CASE shape = "var" -> Var("x")
      [] shape = "left" -> BinOp(Var("x"), Num(1), "add")
      [] shape = "right" -> BinOp(Num(1), Var("x"), "add")
      [] shape = "and" -> And(Var("x"), Num(1))
      [] shape = "or" -> Or(Literal(Nil), Var("x"))
      [] shape = "callee" -> Call(Var("x"), <<>>)
      [] shape = "arg" -> Call(Var("g"), <<Var("x")>>)
      [] shape = "attr" -> Getattr(Var("x"), "f")
      [] shape = "setobj" -> Setattr(Var("x"), "f", Num(1))
      [] shape = "setval" -> Setattr(Var("o"), "f", Var("x"))
      [] shape = "assign" -> Assign("y", Var("x"))
      [] shape = "target" -> Assign("x", Num(1))
      [] shape = "other" -> Var("y")

\* var y = 1;  <place> var x = <initializer>; </place>  print "after";
\* top: at top level; block: inside depth blocks; then: if (true) { .. };
\* function: fun f() { .. }; method: class C { m() { .. } };
\* fnblock: fun f() { { .. } }
SelfInitProgram(place, shape, depth) ==
    LET decl == VarDef("x", Initializer(shape))
    IN  Program(
            <<VarDef("y", Num(1))>>
            \o (CASE place = "top" -> <<decl>>
                  [] place = "block" -> Nest(<<decl>>, depth)
                  [] place = "then" ->
                        <<If(Literal(BoolV(TRUE)), Block(<<decl>>), Block(<<>>))>>
                  [] place = "function" -> <<Function("f", <<>>, <<decl>>)>>
                  [] place = "method" ->
                        <<Class("C", <<>>, <<Function("m", <<>>, <<decl>>)>>)>>
                  [] place = "fnblock" ->
                        <<Function("f", <<>>, Nest(<<decl>>, depth))>>)
            \o <<PrintStmt(Str("after"))>>)

LoadSelfInit ==
    /\ phase = "idle"
    /\ \E place \in DeclPlaces, shape \in InitShapes, depth \in 1..MaxNest :
           /\ place \in {"block", "fnblock"} \/ depth = 1
           /\ Load(SelfInitProgram(place, shape, depth),
                   [family |-> "selfinit", place |-> place, shape |-> shape,
                    depth |-> depth])

\* dup: two declarations  var a  in one scope;  param: a declaration  var a
\* in the body of a function whose parameter is a
DupKinds == {"dup", "param"}

\* the scope of the two declarations, or the place in the body of the
\* declaration reusing the parameter's name
DupPlaces == {"top", "block", "then", "while", "function", "method", "fnblock"}

\* the statements stmts where place says
Placed(place, stmts, depth, params) ==
    CASE place = "top" -> stmts
      [] place = "block" -> Nest(stmts, depth)
      [] place = "then" -> <<If(Literal(BoolV(TRUE)), Block(stmts), Block(<<>>))>>
      [] place = "while" -> <<While(Literal(BoolV(FALSE)), Block(stmts))>>
      [] place = "function" -> <<Function("f", params, stmts)>>
      [] place = "method" -> <<Class("C", <<>>, <<Function("m", params, stmts)>>)>>
      [] place = "fnblock" -> <<Function("f", params, Nest(stmts, depth))>>

\* dup:    <place> var a = 1; print a; var <a or b> = 2; </place>
\* param:  fun f(a) { <place> var <a or b> = 1; </place> }
\*         (class C { m(a) { var <a or b> = 1; } } when place is method)
DupProgram(kind, place, same, depth) ==
    LET other == VarDef(IF same THEN "a" ELSE "b", Num(2))
    IN  Program(
            (IF kind = "dup"
             THEN Placed(place, <<VarDef("a", Num(1)), PrintStmt(Var("a")), other>>,
                         depth, <<>>)
             ELSE IF place \in {"function", "method", "fnblock"}
             THEN Placed(place, <<other>>, depth, <<"a">>)
             ELSE <<Function("f", <<"a">>, Placed(place, <<other>>, depth, <<>>))>>)
            \o <<PrintStmt(Str("after"))>>)

LoadDup ==
    /\ phase = "idle"
    /\ \E kind \in DupKinds, place \in DupPlaces, same \in BOOLEAN,
          depth \in 1..MaxNest :
           /\ place \in {"block", "fnblock"} \/ depth = 1
           /\ kind = "param" => place # "top"
           /\ Load(DupProgram(kind, place, same, depth),
                   [family |-> "dup", kind |-> kind, place |-> place,
                    same |-> same, depth |-> depth])

\* where the statement  return <value>;  stands
\* top: at top level; block: { .. }; function: fun f() { .. };
\* fnblock: fun f() { if (true) { .. } }; fninit: fun init() { .. };
\* blockinit: { fun init() { .. } }; method: class C { m() { .. } };
\* init: class C { init() { .. } }; initblock: class C { init() { { .. } } };
\* initnested: class C { init() { fun g() { .. } } };
\* nestedinit: class C { m() { fun init() { .. } } }
RetPlaces == {"top", "block", "function", "fnblock", "fninit", "blockinit",
             "method", "init", "initblock", "initnested", "nestedinit"}

\* bare: return;   nil: return nil;   the others return a value
RetValues == {"bare", "nil", "int", "this", "var"}

\* the places with no function around the return
NoFunction == {"top", "block"}

\* the places whose nearest function is an init that is a member of a class
DirectInit == {"init", "initblock"}

\* the parser makes  return;  and  return nil;  the same node
RetValue(v, place) ==
    CASE v \in {"bare", "nil"} -> Literal(Nil)
      [] v = "int" -> Num(1)
      [] v = "this" ->
            IF place \in {"method", "init", "initblock", "initnested", "nestedinit"}
            THEN This ELSE Str("this")
      [] v = "var" -> Var("y")

RetInitProgram(place, v) ==
    LET ret == Return(RetValue(v, place))
        cls(name, body) == Class("C", <<>>, <<Function(name, <<>>, body)>>)
    IN  Program(
            <<VarDef("y", Num(2)),
              CASE place = "top" -> ret
                [] place = "block" -> Block(<<ret>>)
                [] place = "function" -> Function("f", <<>>, <<ret>>)
                [] place = "fnblock" ->
                      Function("f", <<>>,
                               <<If(Literal(BoolV(TRUE)), Block(<<ret>>), Block(<<>>))>>)
                [] place = "fninit" -> Function("init", <<>>, <<ret>>)
                [] place = "blockinit" -> Block(<<Function("init", <<>>, <<ret>>)>>)
                [] place = "method" -> cls("m", <<ret>>)
                [] place = "init" -> cls("init", <<ret>>)
                [] place = "initblock" -> cls("init", <<Block(<<ret>>)>>)
                [] place = "initnested" ->
                      cls("init", <<Function("g", <<>>, <<ret>>)>>)
                [] place = "nestedinit" ->
                      cls("m", <<Function("init", <<>>, <<ret>>)>>),
              PrintStmt(Str("after"))>>)

LoadRetInit ==
    /\ phase = "idle"
    /\ \E place \in RetPlaces, v \in RetValues :
           Load(RetInitProgram(place, v),
                [family |-> "retinit", place |-> place, v |-> v])

\* the loop runs the increment before the body
for_cmd_IncrFirst(init, cond, incr, stmt) ==
    Block(<<IF init = <<>> THEN Literal(Nil) ELSE init[1],
            While(IF cond = <<>> THEN Literal(BoolV(TRUE)) ELSE cond[1],
                  IF incr = <<>> THEN stmt ELSE Block(<<incr[1], stmt>>))>>)

\* LoxTransformer.for_cmd; init, cond and incr are sequences: <<>> for None,
\* <<node>> otherwise
for_cmd(init, cond, incr, stmt) ==
    LET init1 == IF init = <<>> THEN Literal(Nil) ELSE init[1]
        cond1 == IF cond = <<>> THEN Literal(BoolV(TRUE)) ELSE cond[1]
        incr1 == IF incr = <<>> THEN Literal(Nil) ELSE incr[1]
        while_body == IF incr1.k = "Literal" /\ incr1.value.t = "NoneType"
                      THEN stmt
                      ELSE Block(<<stmt, incr1>>)
    IN  Block(<<init1, While(cond1, while_body)>>)

\* for: the statement the parser makes of  for (init; cond; incr) body;
\* while: the statement it makes of  { init; while (cond) { body; incr; } }
ForForms == {"for", "while"}

\* var: var i = t("init", 0);  assign: i = t("init", 0);  none: no init
ForInits == {"var", "assign", "none"}

\* lt: t("cond", i < n);  none: no condition, and the body returns
ForConds == {"lt", "none"}

\* inc: i = t("incr", i + 1);  nil: the literal nil;  none: no increment
\* (the body adds one to i when the increment does not)
ForIncrs == {"inc", "nil", "none"}

\* stmt: print i;  block: { print i; }
ForBodies == {"stmt", "block"}

\* t(s, v): prints s and returns v
Tell(s, v) == Call(Var("t"), <<Str(s), v>>)

ForInit(init) ==
    CASE init = "var" -> <<VarDef("i", Tell("init", Num(0)))>>
      [] init = "assign" -> <<Assign("i", Tell("init", Num(0)))>>
      [] init = "none" -> <<>>

ForCond(cond, n) ==
    IF cond = "lt" THEN <<Tell("cond", BinOp(Var("i"), Num(n), "lt"))>> ELSE <<>>

ForIncr(incr) ==
    CASE incr = "inc" -> <<Assign("i", Tell("incr", BinOp(Var("i"), Num(1), "add")))>>
      [] incr = "nil" -> <<Literal(Nil)>>
      [] incr = "none" -> <<>>

ForBody(body, cond, incr) ==
    LET stmts == <<PrintStmt(Var("i"))>>
                 \o (IF incr = "inc" THEN <<>>
                     ELSE <<Assign("i", BinOp(Var("i"), Num(1), "add"))>>)
                 \o (IF cond = "none" THEN <<Return(Literal(Nil))>> ELSE <<>>)
    IN  IF body = "stmt" /\ Len(stmts) = 1 THEN stmts[1] ELSE Block(stmts)

\* the loop, in the form the program is written in
ForStmt(form, init, cond, incr, body, n) ==
    IF form = "for"
    THEN for_cmd(ForInit(init), ForCond(cond, n), ForIncr(incr),
                 ForBody(body, cond, incr))
    ELSE Block(ForInit(init)
               \o <<While(IF cond = "lt" THEN ForCond(cond, n)[1]
                          ELSE Literal(BoolV(TRUE)),
                          Block(<<ForBody(body, cond, incr)>> \o ForIncr(incr)))>>)

\* fun t(s, v) { print s; return v; }
\* [var i = 1;]
\* for (<init>; <cond>; <incr>) <body>      (inside fun g() { .. } g(); when
\* print "end";                              there is no condition)
\* print i;
ForProgram(form, init, cond, incr, body, n, outer) ==
    LET loop == ForStmt(form, init, cond, incr, body, n)
    IN  Program(
            <<Function("t", <<"s", "v">>, <<PrintStmt(Var("s")), Return(Var("v"))>>)>>
            \o (IF outer THEN <<VarDef("i", Num(1))>> ELSE <<>>)
            \o (IF cond = "none"
                THEN <<Function("g", <<>>, <<loop>>), Call(Var("g"), <<>>)>>
                ELSE <<loop>>)
            \o <<PrintStmt(Str("end")), PrintStmt(Var("i"))>>)

LoadFor ==
    /\ phase = "idle"
    /\ \E form \in ForForms, init \in ForInits, cond \in ForConds,
          incr \in ForIncrs, body \in ForBodies, n \in 0..(MaxIter + 1),
          outer \in BOOLEAN :
           /\ outer \/ init = "var"
           /\ cond = "none" => n = 0
           /\ body = "stmt" => (incr = "inc" /\ cond = "lt")
           /\ Load(ForProgram(form, init, cond, incr, body, n, outer),
                   [family |-> "for", form |-> form, init |-> init,
                    cond |-> cond, incr |-> incr, body |-> body, n |-> n,
                    outer |-> outer])

\* free: a function reads a name its caller binds;  leak: the caller reads a
\* parameter or local of the function after the call;  rec: a function calls
\* itself
LexKinds == {"free", "leak", "rec"}

\* where x is bound for the declaration of show: at top level, in the
\* function that declares show, nowhere
LexSites == {"global", "function", "none"}

\* how the caller of show binds x: as a local, as its parameter, in a block
\* around the call, not at all
LexHows == {"local", "param", "block", "none"}

\* <site>  fun caller(<x>) { <var x = "caller";> show(); }  caller(..);
\* site global:    var x = "global";  fun show() { print x; }
\* site function:  fun make() { var x = "site"; fun show() { print x; }
\*                              return show; }
\*                 var show = make();
\* site none:      fun show() { print x; }
FreeProgram(site, how) ==
    LET decl == Function("show", <<>>, <<PrintStmt(Var("x"))>>)
        call == Call(Var("show"), <<>>)
        bindx == VarDef("x", Str("caller"))
    IN  (CASE site = "global" -> <<VarDef("x", Str("global")), decl>>
           [] site = "function" ->
                 <<Function("make", <<>>,
                            <<VarDef("x", Str("site")), decl, Return(Var("show"))>>),
                   VarDef("show", Call(Var("make"), <<>>))>>
           [] site = "none" -> <<decl>>)
        \o <<Function("caller", IF how = "param" THEN <<"x">> ELSE <<>>,
                      CASE how = "local" -> <<bindx, call>>
                        [] how = "block" -> <<Block(<<bindx, call>>)>>
                        [] OTHER -> <<call>>),
             Call(Var("caller"), IF how = "param" THEN <<Str("caller")>> ELSE <<>>)>>

\* <var v = "outer";>  fun f(v) { <v = "changed";> print v; }  f("arg");  print v;
\* (fun f() { var v = "local"; .. }  f();  when v is a local of f)
LeakProgram(which, glob, write) ==
    (IF glob THEN <<VarDef("v", Str("outer"))>> ELSE <<>>)
    \o <<Function("f", IF which = "param" THEN <<"v">> ELSE <<>>,
                  (IF which = "param" THEN <<>> ELSE <<VarDef("v", Str("local"))>>)
                  \o (IF write THEN <<Assign("v", Str("changed"))>> ELSE <<>>)
                  \o <<PrintStmt(Var("v"))>>),
         Call(Var("f"), IF which = "param" THEN <<Str("arg")>> ELSE <<>>),
         PrintStmt(Var("v"))>>

\* fun r(n) { if (n > 0) r(n - 1);  print n;  <n = 100;> }  r(k);
RecProgram(k, write) ==
    <<Function("r", <<"n">>,
               <<If(BinOp(Var("n"), Num(0), "gt"),
                    Call(Var("r"), <<BinOp(Var("n"), Num(1), "sub")>>),
                    Block(<<>>)),
                 PrintStmt(Var("n"))>>
               \o (IF write THEN <<Assign("n", Num(100))>> ELSE <<>>)),
      Call(Var("r"), <<Num(k)>>)>>

LexicalProgram(inp) ==
    Program((CASE inp.kind = "free" -> FreeProgram(inp.site, inp.how)
               [] inp.kind = "leak" -> LeakProgram(inp.which, inp.glob, inp.write)
               [] inp.kind = "rec" -> RecProgram(inp.k, inp.write))
            \o <<PrintStmt(Str("after"))>>)

LoadLexical ==
    /\ phase = "idle"
    /\ \E kind \in LexKinds, site \in LexSites, how \in LexHows,
          which \in {"param", "local"}, glob \in BOOLEAN, write \in BOOLEAN,
          k \in 0..MaxCalls :
           LET inp == [family |-> "lexical", kind |-> kind, site |-> site,
                       how |-> how, which |-> which, glob |-> glob,
                       write |-> write, k |-> k]
           IN  /\ kind # "free" => (site = "none" /\ how = "none")
               /\ kind = "free" => (which = "param" /\ ~glob /\ ~write /\ k = 0)
               /\ kind = "leak" => k = 0
               /\ kind = "rec" => (which = "param" /\ ~glob)
               /\ Load(LexicalProgram(inp), inp)

\* what b is: an instance of the class of a, an instance of another class,
\* the instance a itself
Seconds == {"same", "other", "alias"}

\* how a is written: a.name = v;  a.rename(v);  var r = a.rename; r(v);
\* and a.extra = v; for a field b does not have
WriteKinds == {"attr", "method", "bound", "extra"}

WriteStmts(kind, v) ==
    CASE kind = "attr" -> <<Setattr(Var("a"), "name", v)>>
      [] kind = "method" -> <<Call(Getattr(Var("a"), "rename"), <<v>>)>>
      [] kind = "bound" -> <<VarDef("r", Getattr(Var("a"), "rename")),
                             Call(Var("r"), <<v>>)>>
      [] kind = "extra" -> <<Setattr(Var("a"), "extra", v)>>

RECURSIVE Writes(_, _, _)
\* the writes of z1, ..., zw, the first ones first
Writes(kind, j, w) ==
    IF j > w THEN <<>>
    ELSE (IF kind = "bound" /\ j > 1
          THEN <<Call(Var("r"), <<Str("z" \o ShowNat(j))>>)>>
          ELSE WriteStmts(kind, Str("z" \o ShowNat(j))))
         \o Writes(kind, j + 1, w)

\* class P { init(n) { this.name = n; }  who() { print this.name; }
\*           rename(v) { this.name = v; } }
\* class Q { who() { print "Q"; } }
\* var a = P("a");  var b = <P("b"), Q() or a>;
\* var ma = a.who;  var mb = b.who;
\* <the writes of a>
\* mb();  ma();  b.who();  a.who();
IsolateProgram(second, kind, w) ==
    Program(
        <<Class("P", <<>>,
                <<Function("init", <<"n">>, <<Setattr(This, "name", Var("n"))>>),
                  Function("who", <<>>, <<PrintStmt(Getattr(This, "name"))>>),
                  Function("rename", <<"v">>, <<Setattr(This, "name", Var("v"))>>)>>),
          Class("Q", <<>>, <<Function("who", <<>>, <<PrintStmt(Str("Q"))>>)>>),
          VarDef("a", Call(Var("P"), <<Str("a")>>)),
          VarDef("b", CASE second = "same" -> Call(Var("P"), <<Str("b")>>)
                        [] second = "other" -> Call(Var("Q"), <<>>)
                        [] second = "alias" -> Var("a")),
          VarDef("ma", Getattr(Var("a"), "who")),
          VarDef("mb", Getattr(Var("b"), "who"))>>
        \o Writes(kind, 1, w)
        \o <<Call(Var("mb"), <<>>), Call(Var("ma"), <<>>),
             Call(Getattr(Var("b"), "who"), <<>>),
             Call(Getattr(Var("a"), "who"), <<>>)>>)

LoadIsolate ==
    /\ phase = "idle"
    /\ \E second \in Seconds, kind \in WriteKinds, w \in 0..MaxWrites :
           Load(IsolateProgram(second, kind, w),
                [family |-> "isolate", second |-> second, kind |-> kind,
                 w |-> w])

Next ==
    \/ LoadIsolate
    \/ LoadLexical
    \/ LoadFor
    \/ LoadRetInit
    \/ LoadDup
    \/ LoadSelfInit
    \/ LoadLoop
    \/ LoadLogic
    \/ LoadField
    \/ LoadChain
    \/ LoadOperator
    \/ LoadReflexive
    \/ LoadIdentity
    \/ LoadConstruct
    \/ LoadCall
    \/ LoadClassDecl
    \/ LoadReturn
    \/ LoadClosure
    \/ LoadScope
    \/ Step

Spec == Init /\ [][Next]_vars

----------------------------------------------------------------------------
(* The history.                                                            *)

\* the entries of one kind
Entries(ev) == {i \in DOMAIN trace : trace[i].ev = ev}

\* the entry that ends the call entered at entry i
ExitOf(i) == CHOOSE j \in Entries("exit") : trace[j].id = i

\* the statements the body of call i ran
BodyStmts(i) == {j \in Entries("stmt") : trace[j].id = i}

\* the call entered at entry i had the number of arguments of its parameters
ArityMatch(i) == trace[i].x = trace[i].y

\* function f is a method bound to instance inst
BoundTo(f, inst) ==
    /\ "this" \in DOMAIN ctxs[funs[f].ctx].scope
    /\ ctxs[funs[f].ctx].scope["this"] = InstV(inst)

----------------------------------------------------------------------------
(* C1: a runtime error raised by the body of init leaves the invocation of *)
(* the class as that same error, for every number of arguments; the        *)
(* invocation never returns an instance and never raises another error.    *)
C1_InitErrorPropagates ==
    \A i \in Entries("new") :
        (/\ trace[i].y # 0
         /\ ArityMatch(trace[i].y)
         /\ trace[ExitOf(trace[i].y)].sig = "raise")
        => /\ trace[i].sig = "raise"
           /\ trace[i].err = trace[ExitOf(trace[i].y)].err

(* C2: a call with a number of arguments other than the number of          *)
(* parameters raises TypeError and runs no statement of the body, for a    *)
(* function, a bound method and a class with an init; the invocation       *)
(* never returns a value.                                                  *)
C2_ArityEnforced ==
    /\ \A i \in Entries("call") :
          ~ArityMatch(i)
          => /\ trace[ExitOf(i)].sig = "raise"
             /\ trace[ExitOf(i)].err = "TypeError"
             /\ BodyStmts(i) = {}
    /\ \A i \in Entries("new") \cup Entries("init") :
          (trace[i].y # 0 /\ ~ArityMatch(trace[i].y))
          => trace[i].sig = "raise" /\ trace[i].err = "TypeError"


(* C3: a class declaration whose superclass expression does not evaluate   *)
(* to a class (another value, or its evaluation raises) fails with an      *)
(* error and defines no class; a class written with a superclass is never  *)
(* created without a base.                                                 *)
C3_SuperclassMustBeClass ==
    \A i \in Entries("class") :
        /\ trace[i].x \in {2, 3} => trace[i].sig = "raise" /\ trace[i].id = 0
        /\ (trace[i].x # 0 /\ trace[i].id # 0) => trace[i].y # 0


\* the fields the instances of a program of the construct family hold: what
\* the body of init stored, when the body ran
ConstructFields ==
    IF input.hasInit /\ input.n = input.k /\ input.b \in {"field", "name", "return"}
    THEN [name \in {"f"} |-> IntV(IF input.b = "field" /\ input.n > 0 THEN 1 ELSE 5)]
    ELSE EmptyScope

(* C10: invoking a class creates a new instance of it with no fields,      *)
(* calls the init found through the inheritance chain exactly once, bound  *)
(* to the new instance, with the arguments supplied; a call that returns   *)
(* returns the new instance whatever init returned; with no init in the    *)
(* chain, one or more arguments raise TypeError.                           *)
C10_Construction ==
    /\ \A i \in Entries("new") :
          LET e == trace[i]
              m == get_method(classes, e.fn, "init")
          IN  /\ e.id \in DOMAIN insts
              /\ insts[e.id].lox_class = e.fn
              /\ \A j \in Entries("new") : j # i => trace[j].id # e.id
              /\ e.sig = "ok" => e.val = InstV(e.id)
              /\ (m = 0) <=> (e.y = 0)
              /\ m # 0 =>
                    /\ trace[e.y].ev = "call"
                    /\ trace[e.y].x = e.x
                    /\ BoundTo(trace[e.y].fn, e.id)
                    /\ funs[trace[e.y].fn].name = "init"
                    /\ ctxs[funs[trace[e.y].fn].ctx].parent = funs[m].ctx
                    /\ Cardinality({j \in Entries("call") :
                                       /\ j <= i
                                       /\ trace[j].by = e.by
                                       /\ BoundTo(trace[j].fn, e.id)}) = 1
              /\ (m = 0 /\ e.x > 0) => (e.sig = "raise" /\ e.err = "TypeError")
              /\ (m = 0 /\ e.x = 0) => e.sig = "ok"
    /\ input.family = "construct" =>
          \A i \in DOMAIN insts : insts[i].fields = ConstructFields

\* an inherited init that stores its argument has run and the invocation
\* has returned the instance
C10_Witness ==
    \E i \in Entries("new") :
        /\ trace[i].y # 0
        /\ trace[i].x > 0
        /\ trace[i].sig = "ok"
        /\ classes[trace[i].fn].base # 0
        /\ insts[trace[i].id].fields = [name \in {"f"} |-> IntV(1)]


Lines == {out[i] : i \in DOMAIN out}

\* a program of the return family reaches its return statement
Returns ==
    /\ input.ret
    /\ (\E n \in DOMAIN input.w : input.w[n] = "while") => input.j < MaxIter

(* C4: a return executed anywhere in the body of a function, at any depth  *)
(* of blocks, ifs and loops, ends exactly the running call: no statement   *)
(* of that call runs after it, the call yields the value returned and the  *)
(* caller goes on; a body that ends without a return yields nil.           *)
C4_ReturnEndsCall ==
    /\ \A r \in Entries("return") :
          trace[r].id # 0 =>
             /\ \A k \in Entries("stmt") : k > r => trace[k].id # trace[r].id
             /\ ExitOf(trace[r].id) = r + 1
             /\ trace[r + 1].sig = "ok"
             /\ trace[r + 1].val = trace[r].val
    /\ \A c \in Entries("call") :
          (/\ ArityMatch(c)
           /\ trace[ExitOf(c)].sig = "ok"
           /\ ~\E r \in Entries("return") : trace[r].id = c)
          => trace[ExitOf(c)].val = Nil
    /\ (input.family = "return" /\ input.place \in {"function", "nested", "method"}) =>
          /\ phase \notin {"error", "escaped", "rejected"}
          /\ phase = "done" =>
                /\ out[Len(out)] = "after"
                /\ out[Len(out) - 1] =
                      (IF Returns /\ input.v = "int" THEN "42" ELSE "nil")
                /\ Returns <=> "post" \notin Lines
                /\ Returns => "tail" \notin Lines
                /\ input.place = "nested" => out[Len(out) - 2] = "back"

\* a return two levels deep in a loop has ended the call made by another
\* function, which went on and returned the value to the top level
C4_Witness ==
    /\ input.family = "return"
    /\ input.place = "nested"
    /\ Len(input.w) = 2
    /\ input.w[2] = "while"
    /\ input.j = 1
    /\ input.ret
    /\ input.v = "int"
    /\ phase = "done"
    /\ "iter" \in Lines

(* C5: no LoxReturn leaves Program.eval for a program that passed          *)
(* validation: each return executed is caught by a call.                   *)
C5_NoReturnEscapes ==
    /\ phase # "escaped"
    /\ \A r \in Entries("return") : trace[r].id # 0

\* a validated program has executed a return and run to its end
C5_Witness ==
    /\ phase = "done"
    /\ Entries("return") # {}
    /\ input.family = "return"
    /\ input.place = "init"


\* the number of the first i calls of a program of the closure family that
\* call the closure called by the i-th
CallsSoFar(i) ==
    Cardinality({m \in 1..i : input.o[m] = input.o[i]})

(* C6: a function created inside a call keeps reading and writing the      *)
(* locals of that call after the call has returned: the calls of one       *)
(* closure see each other's assignments, and closures made by two calls    *)
(* of the outer function have locals of their own.                         *)
C6_ClosureCapture ==
    input.family = "closure" =>
        /\ phase \in {"running", "done"}
        /\ Len(out) = (IF pc > 3 THEN pc - 4 ELSE 0)
        /\ \A i \in DOMAIN out :
              out[i] = ShowInt((IF input.o[i] = "a" THEN 10 ELSE 20) + CallsSoFar(i))

\* both closures have been called twice, interleaved, after make returned
C6_Witness ==
    /\ input.family = "closure"
    /\ input.capture = "block"
    /\ input.o = <<"a", "b", "a", "b">>
    /\ phase = "done"
    /\ out = <<"11", "21", "12", "22">>

\* the nearest level at or above l that declares x (-1: none)
Nearest(l) ==
    LET ds == {d \in input.defs : d <= l}
    IN  IF ds = {} THEN 0 - 1 ELSE CHOOSE d \in ds : \A e \in ds : e <= d

\* the value of x seen from level l at the end of the level inside it
Seen(l) ==
    IF input.op = "assign" /\ Nearest(l) = Nearest(input.depth) THEN 99
    ELSE 10 + Nearest(l)

\* the levels whose print x finds x, innermost first
Printing == {l \in 0..input.depth : Nearest(l) # 0 - 1}

\* the lines the prints of x write when the program runs to the end of
\* what it can run
ScopeLines ==
    [i \in 1..Cardinality(Printing) |-> ShowInt(Seen(input.depth + 1 - i))]

\* the frames that bind x
FramesOf(name) == {c \in DOMAIN ctxs : name \in DOMAIN ctxs[c].scope}

Ended == phase \in {"done", "error"}

(* C7: a variable declared in a block is bound in the frame of that block  *)
(* only: after the block the name is unbound (NameError) unless an         *)
(* enclosing frame binds it, and then the enclosing binding is unchanged.  *)
C7_BlockLocal ==
    (input.family = "scope" /\ input.op = "none") =>
        /\ phase # "rejected"
        /\ Ended =>
              /\ out = ScopeLines
              /\ phase = (IF 0 \in input.defs THEN "done" ELSE "error")
              /\ phase = "error" => error = "NameError"
              /\ \A c \in FramesOf("x") :
                    ctxs[c].scope["x"].n \in {10 + d : d \in input.defs}
              /\ Cardinality(FramesOf("x")) = Cardinality(input.defs)

\* x declared in the two levels of blocks and not at top level: the inner
\* prints show the nearer declaration and the print at top level fails
C7_Witness ==
    /\ input.family = "scope"
    /\ input.op = "none"
    /\ input.depth = 2
    /\ input.defs = {1, 2}
    /\ phase = "error"
    /\ error = "NameError"
    /\ out = <<"12", "11">>

(* C8: assigning a name the innermost frame does not bind and an           *)
(* enclosing frame does changes the binding of the nearest such frame and  *)
(* binds nothing in the inner frame: the value is seen from the enclosing  *)
(* scope after the block or call, and the assignment has that value.       *)
C8_AssignEnclosing ==
    (input.family = "scope" /\ input.op = "assign" /\ input.defs # {}) =>
        /\ phase # "rejected"
        /\ Ended =>
              /\ out = <<"99">> \o ScopeLines
              /\ phase = (IF 0 \in input.defs THEN "done" ELSE "error")
              /\ Cardinality(FramesOf("x")) = Cardinality(input.defs)
              /\ \E c \in FramesOf("x") : ctxs[c].scope["x"] = IntV(99)

\* x declared at top level and in the first block, assigned two blocks down
\* in the body of a call: the first block's x changed, the top level's not
C8_Witness ==
    /\ input.family = "scope"
    /\ input.op = "assign"
    /\ input.via = "call"
    /\ input.depth = 2
    /\ input.defs = {0, 1}
    /\ phase = "done"
    /\ out = <<"99", "99", "99", "10">>

(* C9: assigning a name no frame of the chain binds raises NameError and   *)
(* changes no frame: no binding is made, a lookup of the name still fails. *)
C9_AssignUnbound ==
    (input.family = "scope" /\ input.op = "assign" /\ input.defs = {}) =>
        /\ phase # "rejected"
        /\ FramesOf("x") = {}
        /\ out = <<>>
        /\ Ended => (phase = "error" /\ error = "NameError")
        /\ phase # "done"

\* the assignment, in a function called in a block, has raised NameError
C9_Witness ==
    /\ input.family = "scope"
    /\ input.op = "assign"
    /\ input.via = "call"
    /\ input.depth = 1
    /\ input.defs = {}
    /\ phase = "error"
    /\ error = "NameError"
    /\ Entries("call") # {}

----------------------------------------------------------------------------
\* the applications of operator op
Ops(op) == {i \in Entries("op") : trace[i].op = op}

\* the types of the values that are objects
ObjectTypes == {"LoxInstance", "LoxClass", "LoxFunction"}

(* C11: == between two distinct instances, two distinct classes or two     *)
(* distinct functions is false (and != true), whatever their structure:    *)
(* instances of the same class with the same fields, classes and functions *)
(* with the same declaration.                                              *)
C11_IdentityEquality ==
    \A i \in Ops("eq") \cup Ops("ne") :
        (/\ trace[i].l.t \in ObjectTypes
         /\ trace[i].l.t = trace[i].r.t
         /\ trace[i].l.n # trace[i].r.n)
        => trace[i].val = BoolV(trace[i].op = "ne")

\* a value of the Number variant
LoxNumber(v) == v.t \in {"int", "float"}

(* C12: == between two numbers is true exactly when they have the same     *)
(* numeric value (and != exactly when they have not), whether each came    *)
(* from a literal without a decimal point, a literal with one, or an       *)
(* arithmetic operation.                                                   *)
C12_NumbersByValue ==
    \A i \in Ops("eq") \cup Ops("ne") :
        LET l == trace[i].l
            r == trace[i].r
        IN  (LoxNumber(l) /\ LoxNumber(r) /\ ~IsNaN(l) /\ ~IsNaN(r))
            => trace[i].val = BoolV((l.n * r.d = r.n * l.d) = (trace[i].op = "eq"))

(* C13: v == v is true and v != v is false for every value v, the result   *)
(* of a division by zero included.                                         *)
C13_EqualityReflexive ==
    \A i \in Ops("eq") \cup Ops("ne") :
        trace[i].l = trace[i].r => trace[i].val = BoolV(trace[i].op = "eq")

\* the binary operators that take two numbers
NumericOps == {"sub", "mul", "truediv", "lt", "le", "gt", "ge"}

(* C14: -, *, /, <, <=, >, >= and the unary - raise an error whenever an   *)
(* operand is not a number: a bool, nil, a string or an object.            *)
C14_OperatorsRequireNumbers ==
    \A i \in Entries("op") :
        (\/ trace[i].op \in NumericOps
               /\ (~LoxNumber(trace[i].l) \/ ~LoxNumber(trace[i].r))
         \/ trace[i].op = "neg" /\ ~LoxNumber(trace[i].l))
        => trace[i].sig = "raise"

\* the classes of a program of the chain family that declare m, among the
\* class of the instance and its ancestors
ChainDefs == {d \in input.defs : d <= input.at}

\* the members of a set of numbers, largest first
Descending(S) ==
    [i \in 1..Cardinality(S) |->
        CHOOSE d \in S : Cardinality({e \in S : e > d}) = i - 1]

(* C15: the method found on an instance is the one of the nearest class,   *)
(* from the class of the instance up its chain of bases, that declares the *)
(* name: a subclass's declaration overrides an ancestor's, a name declared *)
(* only on an ancestor is found, a name declared nowhere in the chain      *)
(* fails; the chain of bases of every class ends.                          *)
C15_MethodResolution ==
    /\ \A c \in DOMAIN classes : classes[c].base < c
    /\ (input.family = "chain" /\ Ended) =>
          IF ChainDefs = {}
          THEN phase = "error" /\ error = "AttributeError" /\ out = <<>>
          ELSE /\ out # <<>>
               /\ out[1] = ClassName(Descending(ChainDefs)[1])
               /\ ~input.sup =>
                     /\ phase = "done"
                     /\ out = <<ClassName(Descending(ChainDefs)[1]), "after">>
                     /\ insts[1].fields =
                           [name \in {"by"} |-> IntV(Descending(ChainDefs)[1])]

\* on an instance of the third class of a chain whose first two classes
\* declare m, the method of the second has run
C15_Witness ==
    /\ input.family = "chain"
    /\ input.len = 3
    /\ input.at = 3
    /\ input.defs = {1, 2}
    /\ ~input.sup
    /\ phase = "done"
    /\ out = <<"K2", "after">>

(* C16: super.m in a method declared in class K finds m from the base K    *)
(* was declared with, whatever the class of the instance, and calls it     *)
(* with the same this: every declaration of m from the class of the        *)
(* instance up to the root runs once, nearest first, each on the instance  *)
(* the first was called on.                                                *)
C16_SuperStatic ==
    (input.family = "chain" /\ input.sup /\ 1 \in input.defs) =>
        /\ phase \notin {"error", "rejected", "escaped"}
        /\ \A i \in Entries("call") : BoundTo(trace[i].fn, 1)
        /\ phase = "done" =>
              /\ out = [i \in 1..Cardinality(ChainDefs) |->
                           ClassName(Descending(ChainDefs)[i])] \o <<"after">>
              /\ Len(insts) = 1
              /\ insts[1].fields = [name \in {"by"} |-> IntV(1)]
              /\ ctxs[1].scope["r"] = InstV(1)
              /\ Cardinality(Entries("call")) = Cardinality(ChainDefs)

\* K3 < K2 < K1, K2's m calls super.m and K3 inherits it: called on an
\* instance of K3, K2's m and then K1's have run on that instance
C16_Witness ==
    /\ input.family = "chain"
    /\ input.sup
    /\ input.len = 3
    /\ input.at = 3
    /\ input.defs = {1, 2}
    /\ phase = "done"
    /\ out = <<"K2", "K1", "after">>
    /\ insts[1].lox_class = 3
    /\ insts[1].fields = [name \in {"by"} |-> IntV(1)]

\* what a program of the field family prints when it reads the attribute
\* before any write
UnwrittenLine ==
    IF input.attr = "init" THEN "<native fn>" ELSE "<fn " \o input.attr \o ">"

(* C17: a write to an attribute of an instance makes or replaces the field *)
(* of that name, also when the class or its base declares a method of the  *)
(* name (init included), and has the value written; a read yields the      *)
(* value of the last write; before any write a read yields the method, and *)
(* fails with AttributeError for a name that is no method of the chain.    *)
C17_FieldsShadowMethods ==
    input.family = "field" =>
        /\ phase \notin {"rejected", "escaped"}
        /\ Ended =>
              IF input.pre /\ input.attr = "x"
              THEN /\ phase = "error"
                   /\ error = "AttributeError"
                   /\ out = <<>>
                   /\ insts[1].fields = EmptyScope
              ELSE /\ phase = "done"
                   /\ out = (IF input.pre THEN <<UnwrittenLine>> ELSE <<>>)
                            \o [j \in 1..(2 * input.w) |-> ShowInt((j + 1) \div 2)]
                   /\ insts[1].fields =
                         (IF input.w = 0 THEN EmptyScope
                          ELSE [name \in {input.attr} |-> IntV(input.w)])

\* the name init, first read as the method, has been written twice and
\* read after each write
C17_Witness ==
    /\ input.family = "field"
    /\ input.attr = "init"
    /\ input.pre
    /\ input.w = 2
    /\ phase = "done"
    /\ out = <<"<native fn>", "1", "1", "2", "2">>

\* the line print writes for a value of the logic family
LogicLine(v) ==
    CASE v = "nil" -> "nil" [] v = "false" -> "false" [] v = "zero" -> "0"
      [] v = "str" -> "s"

\* the right operand of op is needed after a left operand v
Needed(op, v) == (op = "and") = (v \notin {"nil", "false"})

\* the value of <l> op1 r1() in a program of the logic family
InnerValue == IF Needed(input.op1, input.l) THEN input.v1 ELSE input.l

(* C18: and evaluates its right operand only when the left one is truthy,  *)
(* or only when it is falsy; a right operand that is skipped makes no      *)
(* call, no print and no assignment, and the result is the value of the    *)
(* last operand evaluated, as it is, not a boolean made from it.           *)
C18_ShortCircuit ==
    input.family = "logic" =>
        /\ phase \notin {"rejected", "error", "escaped"}
        /\ Cardinality(Entries("call")) <= 1
        /\ phase = "done" =>
              /\ (Entries("call") # {}) = Needed(input.op1, input.l)
              /\ out = (IF Needed(input.op1, input.l) THEN <<"r1">> ELSE <<>>)
                       \o <<LogicLine(IF Needed(input.op2, InnerValue)
                                      THEN input.v2 ELSE InnerValue)>>
                       \o <<IF Needed(input.op2, InnerValue)
                              THEN LogicLine(input.v2) ELSE "unset">>

\* 0 or r1() or (x = nil): both right operands were skipped, r1 was not
\* called, x was not assigned and the value is the 0 on the left
C18_Witness ==
    /\ input.family = "logic"
    /\ input.op1 = "or"
    /\ input.op2 = "or"
    /\ input.l = "zero"
    /\ input.v2 = "nil"
    /\ phase = "done"
    /\ out = <<"0", "unset">>
    /\ Entries("call") = {}

(* C19: the frames of the interpreter's stack a while statement needs do   *)
(* not grow with the number of iterations: no call of While.eval runs      *)
(* deeper than the calls a loop of a single iteration makes.               *)
C19_WhileIterative ==
    input.family = "loop" =>
        \A i \in Entries("while") : trace[i].id <= input.nest + 2

\* the classes of the errors of evaluation
RuntimeErrors == {"NameError", "TypeError", "AttributeError", "RuntimeError"}

(* C20: every error raised while a program is evaluated is a NameError, a  *)
(* TypeError, an AttributeError or a RuntimeError: the error that ends the *)
(* program, the error an operator raises for operands it does not take     *)
(* (a TypeError) and the error a call ends with, the call of a method      *)
(* that names through super a method its bases do not have included.       *)
C20_RuntimeErrorFamily ==
    /\ phase = "error" => error \in RuntimeErrors
    /\ \A i \in Entries("op") \cup Entries("exit") :
          trace[i].sig = "raise" => trace[i].err \in RuntimeErrors
    /\ \A i \in Entries("op") : trace[i].sig = "raise" => trace[i].err = "TypeError"

----------------------------------------------------------------------------
(* C21: a declaration whose initializer reads the declared name is         *)
(* rejected by the validator when it stands inside a block or a function   *)
(* body, whatever expression of the initializer the name is an operand of, *)
(* and is accepted when it stands directly at top level.                   *)
C21_OwnInitializer ==
    input.family = "selfinit" =>
        IF input.place = "top"
        THEN phase # "rejected"
        ELSE input.shape \in SelfShapes => phase = "rejected"

(* C22: two declarations of one name in the same local scope (a block, or  *)
(* the body of a function or method) are rejected by the validator, and so *)
(* is a declaration anywhere in the body of a function, blocks under if    *)
(* and while included, of the name of one of the function's parameters.    *)
C22_DuplicateDeclaration ==
    (input.family = "dup" /\ input.same /\ input.place # "top") =>
        phase = "rejected"

(* C23: a return is accepted by the validator exactly when a function or   *)
(* method declaration is among its ancestors, except that a return whose   *)
(* nearest function is a method init declared directly in a class is       *)
(* rejected unless it returns the literal nil; in a function nested in     *)
(* init and in a function init that is no method every value is accepted.  *)
C23_ReturnValidator ==
    input.family = "retinit" =>
        (phase = "rejected" <=>
            \/ input.place \in NoFunction
            \/ input.place \in DirectInit /\ input.v \notin {"bare", "nil"})

\* class C { init() { fun g() { return 1; } } } is accepted and runs to its
\* end
C23_Witness ==
    /\ input.family = "retinit"
    /\ input.place = "initnested"
    /\ input.v = "int"
    /\ phase = "done"
    /\ out = <<"after">>

\* the value of i when the condition is first evaluated
ForStart == IF input.init = "none" THEN 1 ELSE 0

RECURSIVE ForIters(_, _)
\* the lines of the iterations from i = k on, and of the last evaluation of
\* the condition
ForIters(k, n) ==
    IF k >= n THEN <<"cond">>
    ELSE <<"cond", ShowNat(k)>>
         \o (IF input.incr = "inc" THEN <<"incr">> ELSE <<>>)
         \o ForIters(k + 1, n)

\* the value of the i the loop counts in, after the loop
ForFinal ==
    IF input.cond = "none"
    THEN (IF input.incr = "inc" THEN ForStart ELSE ForStart + 1)
    ELSE (IF ForStart >= input.n THEN ForStart ELSE input.n)

\* the lines of  { init; while (cond) { body; incr; } }  print "end";  print i;
ForLines ==
    (IF input.init = "none" THEN <<>> ELSE <<"init">>)
    \o (IF input.cond = "none" THEN <<ShowNat(ForStart)>>
        ELSE ForIters(ForStart, input.n))
    \o <<"end">>
    \o (IF input.init # "var" THEN <<ShowNat(ForFinal)>>
        ELSE IF input.outer THEN <<"1">> ELSE <<>>)

(* C24: for (init; cond; incr) body runs as { init; while (cond) { body;   *)
(* incr; } }: init once, cond before every iteration, body and then incr   *)
(* once for every true cond, the end at the first false cond, and a        *)
(* variable declared in init is unbound in the enclosing scope afterwards; *)
(* both forms of a loop write the same lines and end the same way.         *)
C24_ForDesugaring ==
    input.family = "for" =>
        /\ phase # "rejected"
        /\ Ended =>
              /\ out = ForLines
              /\ phase = (IF input.init = "var" /\ ~input.outer
                          THEN "error" ELSE "done")
              /\ phase = "error" => error = "NameError"
              /\ IF input.outer
                 THEN ctxs[1].scope["i"] =
                          IntV(IF input.init = "var" THEN 1 ELSE ForFinal)
                 ELSE "i" \notin DOMAIN ctxs[1].scope

\* for (var i = 0; i < 3; i = i + 1) print i;  print i;  wrote 0, 1, 2 and
\* ended by the NameError of the last print
C24_Witness ==
    /\ input.family = "for"
    /\ input.form = "for"
    /\ input.init = "var"
    /\ input.incr = "inc"
    /\ input.body = "stmt"
    /\ input.n = 3
    /\ ~input.outer
    /\ phase = "error"
    /\ out = <<"init", "cond", "0", "incr", "cond", "1", "incr",
               "cond", "2", "incr", "cond", "end">>

\* the "exit" entries of the calls that ran their body
Ran == {j \in Entries("exit") : trace[j].x # 0}

\* the names the statements of a body declare in the frame of the call
Declared(body) ==
    {body[i].name : i \in {n \in DOMAIN body :
                              body[n].k \in {"VarDef", "Function", "Class"}}}

RECURSIVE CountUp(_, _)
\* the lines i, i + 1, ..., k
CountUp(i, k) == IF i > k THEN <<>> ELSE <<ShowNat(i)>> \o CountUp(i + 1, k)

\* the lines a program of the lexical family writes under lexical scoping
LexLines ==
    CASE input.kind = "free" ->
            (CASE input.site = "global" -> <<"global", "after">>
               [] input.site = "function" -> <<"site", "after">>
               [] input.site = "none" -> <<>>)
      [] input.kind = "leak" ->
            <<IF input.write THEN "changed"
              ELSE IF input.which = "param" THEN "arg" ELSE "local">>
            \o (IF input.glob THEN <<"outer", "after">> ELSE <<>>)
      [] input.kind = "rec" -> CountUp(0, input.k) \o <<"after">>

\* and whether it ends by the NameError of a name bound by no frame of the
\* chain
LexUnbound ==
    \/ input.kind = "free" /\ input.site = "none"
    \/ input.kind = "leak" /\ ~input.glob

(* C25: scoping is lexical.  The body of every call runs in a frame of its *)
(* own, whose parent is the environment the function captured and which    *)
(* binds the parameters and what the body declares; a free name of the     *)
(* body is read in the chain of the declaration, never in the caller's     *)
(* frames; the caller does not see the parameters and locals of the call;  *)
(* the calls of a recursion have each their own binding of the parameter.  *)
C25_LexicalScoping ==
    /\ \A j \in Ran :
          LET fr == trace[j].x
              fn == funs[trace[j].fn]
              params == {fn.arg_names[i] : i \in DOMAIN fn.arg_names}
          IN  /\ ctxs[fr].parent = fn.ctx
              /\ params \subseteq DOMAIN ctxs[fr].scope
              /\ DOMAIN ctxs[fr].scope \subseteq params \cup Declared(fn.body)
              /\ \A j2 \in Ran : trace[j2].x = fr => j2 = j
              /\ \A f \in DOMAIN funs : funs[f].ctx = fr => f > trace[j].fn
    /\ (input.family = "lexical" /\ Ended) =>
          /\ out = LexLines
          /\ phase = (IF LexUnbound THEN "error" ELSE "done")
          /\ phase = "error" => error = "NameError"

\* show, declared in make beside x = "site" and called by a caller with an
\* x of its own, printed "site"
C25_Witness ==
    /\ input.family = "lexical"
    /\ input.kind = "free"
    /\ input.site = "function"
    /\ input.how = "local"
    /\ phase = "done"
    /\ out = <<"site", "after">>
    /\ Cardinality(Ran) = 3

\* the entries the step adds to the history
Added == (Len(trace) + 1)..Len(trace')

\* those of the writes of field name of instance i
SetsOf(i, name) ==
    {e \in Added : /\ trace'[e].ev = "set"
                   /\ trace'[e].id = i
                   /\ trace'[e].op = name}

\* the fields of instance i before the step; a new instance has none
FieldsBefore(i) == IF i \in DOMAIN insts THEN insts[i].fields ELSE EmptyScope

\* a step changes the fields written in it, of the instances written in it,
\* and nothing else of any instance, class, function or binding of this
OnlyOwnFields ==
    /\ \A i \in DOMAIN insts' :
          /\ i \in DOMAIN insts => insts'[i].lox_class = insts[i].lox_class
          /\ \A name \in DOMAIN insts'[i].fields \cup DOMAIN FieldsBefore(i) :
                LET ws == SetsOf(i, name)
                    last == CHOOSE e \in ws : \A e2 \in ws : e2 <= e
                IN  IF ws = {}
                    THEN /\ name \in DOMAIN FieldsBefore(i)
                         /\ name \in DOMAIN insts'[i].fields
                         /\ insts'[i].fields[name] = FieldsBefore(i)[name]
                    ELSE /\ name \in DOMAIN insts'[i].fields
                         /\ insts'[i].fields[name] = trace'[last].val
    /\ \A c \in DOMAIN classes : classes'[c] = classes[c]
    /\ \A f \in DOMAIN funs : funs'[f] = funs[f]
    /\ \A c \in DOMAIN ctxs :
          "this" \in DOMAIN ctxs[c].scope =>
              /\ "this" \in DOMAIN ctxs'[c].scope
              /\ ctxs'[c].scope["this"] = ctxs[c].scope["this"]

\* the name a has after the writes
NameOfA ==
    IF input.kind = "extra" \/ input.w = 0 THEN "a"
    ELSE "z" \o ShowNat(input.w)

\* the line who() prints for b
NameOfB ==
    CASE input.second = "same" -> "b"
      [] input.second = "other" -> "Q"
      [] input.second = "alias" -> NameOfA

(* C26: instances are isolated.  A write of a field of a changes that      *)
(* field of a and no field of another instance, no method table of a class *)
(* and no function; the this of a bound method never changes, so binding   *)
(* or calling a method of a leaves the this of a method bound to b as it   *)
(* was: after the writes of a, the methods of b print b's name and those   *)
(* of a print a's.                                                         *)
C26_InstanceIsolation ==
    /\ [][OnlyOwnFields]_vars
    /\ []((input.family = "isolate" /\ Ended) =>
              /\ phase = "done"
              /\ out = <<NameOfB, NameOfA, NameOfB, NameOfA>>)

\* a was renamed twice by its method and b, of the same class, kept its name
C26_Witness ==
    /\ input.family = "isolate"
    /\ input.second = "same"
    /\ input.kind = "method"
    /\ input.w = 2
    /\ phase = "done"
    /\ out = <<"b", "z2", "b", "z2">>
    /\ insts[1].fields["name"] = StrV("z2")
    /\ insts[2].fields["name"] = StrV("b")

====
